---- MODULE Spec2Model ----
(***************************************************************************)
(* Verification model of the karate school management application.        *)
(*                                                                         *)
(*   SpecElig   getFamilyPaymentEligibilityData (payment-eligibility       *)
(*              service), one action per awaited read.                     *)
(*   SpecAdmin  the admin student edit action and the admin family edit    *)
(*              action over the students and families tables.              *)
(*   SpecProgram  updateProgram and getProgramById of the program service. *)
(*   SpecAccount  the family account action (updateFamily, updateGuardian, *)
(*              updatePreferences) behind its Zod form schema.             *)
(***************************************************************************)
EXTENDS Integers, Sequences, FiniteSets, Bags, TLC

(***************************************************************************)
(* Bounds                                                                  *)
(***************************************************************************)
NumStudents == 2
NumPayments == 2
MaxBlank == 2       \* required fields left out of one submitted form
MaxTime == 1        \* last value of the clock read by `new Date()`
NumRows == 2        \* rows per table edited by the admin routes

StudentIds == 1..NumStudents
PaymentIds == 1..NumPayments

\* rows of the families table, and the ids a caller may ask for ("f0" is in no row)
FamilyRows == {"f1", "f2"}
RequestedFamilyIds == {"f1", "f0"}
PaymentStatuses == {"succeeded", "pending"}

\* outcome of one awaited call: data, a reported error object, or an exception
ReadOutcomes == {"ok", "error", "throw"}

NoError == "none"
NoName == "none"

VARIABLES
    \* ---- database tables read by the eligibility service
    dbStudentFamily,        \* students.family_id, per student id
    dbPayments,             \* payments: id -> [family_id, status]
    dbLinks,                \* payment_students rows: <<student_id, payment_id>>
    \* ---- one call of getFamilyPaymentEligibilityData
    familyId,               \* argument
    pc,                     \* position in the function body
    readLog,                \* reads issued so far, in order
    failedReads,            \* reads that reported an error or threw
    students,               \* local `students`
    successfulPaymentIds,   \* local `successfulPaymentIds`
    paymentStudentLinks,    \* local `paymentStudentLinks`
    individualSessions,     \* local `individualSessions`
    studentPaymentDetails,  \* local `studentPaymentDetails`
    exitCause,              \* which return statement produced `result`
    result                  \* the returned PaymentEligibilityData

eligVars == <<dbStudentFamily, dbPayments, dbLinks, familyId, pc, readLog,
              failedReads, students, successfulPaymentIds, paymentStudentLinks,
              individualSessions, studentPaymentDetails, exitCause, result>>

VARIABLES
    \* ---- the admin edit routes
    route,                  \* the route module the requests go to
    now,                    \* the clock
    dbStudents,             \* students table: id -> row
    dbFamilies,             \* families table: id -> row
    dbPrograms,             \* programs table: id -> row
    dbGuardians,            \* guardians table: id -> row
    authUser,               \* the auth record of the signed-in user
    phase,                  \* "idle", "pending" (request received), "responded"
    req,                    \* the request being handled
    rowsBefore,             \* the route's table when the request arrived
    resp                    \* the response of the action

acctTables == <<dbGuardians, authUser>>

adminVars == <<route, now, dbStudents, dbFamilies, dbPrograms, acctTables, phase, req, rowsBefore, resp>>

VARIABLES
    \* ---- a form submitted a second time
    prev                    \* the first submission and the table it left behind

VARIABLES
    \* ---- the browser page that loads notifications.client.ts
    page,                   \* window / Notification as the browser provides them
    instance,               \* NotificationService.instance (static field)
    constructed,            \* constructor runs so far
    pushService,            \* pushNotificationService: initialize / listener calls
    returned,               \* the instances getInstance has returned so far
    calls                   \* getInstance calls so far

notifyVars == <<page, instance, constructed, pushService, returned, calls>>

VARIABLES
    \* ---- the read functions of the program service
    dbClasses,              \* classes table: id -> row
    rpc,                    \* what check_program_eligibility yields, per program
    reads,                  \* the reads of one Promise.all: pending, or settled how
    settled                 \* the order in which they settled

readVars == <<dbClasses, rpc, reads, settled>>

VARIABLES
    \* ---- the signed-in user of the account page
    session                 \* auth user and profiles.family_id of that user

VARIABLES
    \* ---- AdminStudentDetailPage, the component of admin.students.$studentId.tsx
    isEditing,              \* useState: edit mode
    actionData,             \* useActionData(): what the last action returned
    effectDue,              \* a render changed a dependency of the useEffect
    lastEvent               \* the last thing the user did on the page

pageVars == <<isEditing, actionData, effectDue, lastEvent>>

VARIABLES
    \* ---- the browser around the notification code
    storage,                \* localStorage item 'notifications-enabled'
    pushManager,            \* 'serviceWorker' in navigator && 'PushManager' in window
    subscription,           \* the push manager holds a subscription
    hidden,                 \* document.hidden
    \* ---- NotificationSettingsContent and the calls of the notification service
    settings,               \* the component's useState values as last rendered
    tasks,                  \* async functions in flight, each at an await
    last                    \* the call that returned or settled last, and what it did

browserVars == <<storage, pushManager, subscription, hidden, settings, tasks, last>>

clientVars == <<pageVars, browserVars>>

exceptPrev == <<notifyVars, readVars, session, clientVars>>
exceptNotify == <<prev, readVars, session, clientVars>>
exceptReads == <<prev, notifyVars, session, clientVars>>
exceptSession == <<prev, notifyVars, readVars, clientVars>>
exceptPage == <<prev, notifyVars, readVars, session, browserVars>>
exceptBrowser == <<prev, readVars, session, pageVars>>
extVars == <<prev, notifyVars, readVars, session, clientVars>>

vars == <<eligVars, adminVars, extVars>>

(***************************************************************************)
(* Helpers                                                                 *)
(***************************************************************************)
RECURSIVE SumSeq(_, _)
SumSeq(s, field) ==
    IF s = <<>> THEN 0 ELSE s[1][field] + SumSeq(Tail(s), field)

\* all orderings of a finite set, as sequences without repetition
Orderings(S) ==
    {sq \in [1..Cardinality(S) -> S] : \A i, j \in 1..Cardinality(S) : i # j => sq[i] # sq[j]}

Log(read, student) == [read |-> read, student |-> student]

(***************************************************************************)
(* The eligibility reasons checkStudentEligibility can report.             *)
(***************************************************************************)
EligibilityReasons == {"Trial", "Paid - Monthly", "Paid - Yearly", "Expired"}

\* one_on_one_sessions result sets a family may have (most recent first)
SessionRowChoices ==
    { <<>>,
      <<[quantity_purchased |-> 2, quantity_remaining |-> 0],
        [quantity_purchased |-> 1, quantity_remaining |-> 1]>> }

EmptySessions == [totalPurchased |-> 0, totalRemaining |-> 0, purchases |-> <<>>]

(***************************************************************************)
(* Pure parts of getFamilyPaymentEligibilityData                           *)
(***************************************************************************)
\* getFamilyIndividualSessions: totals over the purchases read
SessionInfo(rows) ==
    [totalPurchased |-> SumSeq(rows, "quantity_purchased"),
     totalRemaining |-> SumSeq(rows, "quantity_remaining"),
     purchases |-> rows]

\* (mutant) the status filter is dropped
SucceededPaymentIds_NoStatus(fid) ==
    {p \in PaymentIds : dbPayments[p].family_id = fid}

\* .from('payments').eq('family_id', familyId).eq('status', 'succeeded')
SucceededPaymentIds(fid) ==
    {p \in PaymentIds : dbPayments[p].family_id = fid /\ dbPayments[p].status = "succeeded"}

\* .from('payment_students').in('payment_id', successfulPaymentIds)
LinksForPayments(ids) == {l \in dbLinks : l[2] \in ids}

\* paymentStudentLinks.filter(link => link.student_id === student.id).length
PastPaymentCount(links, s) == Cardinality({l \in links : l[1] = s})

\* (mutant) only expired students need payment
NeedsPayment_ExpiredOnly(reason) == reason = "Expired"

\* eligibility.reason === 'Trial' || eligibility.reason === 'Expired'
NeedsPayment(reason) == reason = "Trial" \/ reason = "Expired"

StudentDetail(s, reason, links, sessions) ==
    [studentId |-> s,
     eligibility |-> reason,
     needsPayment |-> NeedsPayment(reason),
     pastPaymentCount |-> PastPaymentCount(links, s),
     individualSessions |-> sessions]

\* (mutant) the error object carries the details built so far
ErrorResult_KeepsDetails(fid, name, details, message) ==
    [familyId |-> fid,
     familyName |-> name,
     studentPaymentDetails |-> details,
     hasAvailableDiscounts |-> FALSE,
     error |-> message]

\* the early `return { familyId, familyName?, studentPaymentDetails: [], ... error }`
ErrorResult(fid, name, details, message) ==
    [familyId |-> fid,
     familyName |-> name,
     studentPaymentDetails |-> <<>>,
     hasAvailableDiscounts |-> FALSE,
     error |-> message]

\* the final `return { familyId, familyName, studentPaymentDetails, hasAvailableDiscounts }`
SuccessResult(fid, name, details, discounts) ==
    [familyId |-> fid,
     familyName |-> name,
     studentPaymentDetails |-> details,
     hasAvailableDiscounts |-> discounts,
     error |-> NoError]

\* !discountsError && availableDiscountsData && availableDiscountsData.length > 0
HasAvailableDiscounts(outcome, rowCount) == outcome = "ok" /\ rowCount > 0

\* (mutant) a failed links read does not return
NextStep_LinksErrorIgnored(step, failed, paymentIds) ==
    CASE step = "family"   -> IF failed THEN "done" ELSE "students"
      [] step = "students" -> IF failed THEN "done" ELSE "payments"
      [] step = "payments" -> IF failed THEN "done"
                              ELSE IF paymentIds # {} THEN "links" ELSE "sessions"
      [] step = "links"    -> "sessions"
      [] step = "sessions" -> "eligibility"
      [] OTHER             -> "done"

\* (mutant) the individual sessions are read before the payment links
NextStep_SessionsBeforeLinks(step, failed, paymentIds) ==
    CASE step = "family"   -> IF failed THEN "done" ELSE "students"
      [] step = "students" -> IF failed THEN "done" ELSE "payments"
      [] step = "payments" -> IF failed THEN "done" ELSE "sessions"
      [] step = "sessions" -> IF paymentIds # {} THEN "links" ELSE "eligibility"
      [] step = "links"    -> IF failed THEN "done" ELSE "eligibility"
      [] OTHER             -> "done"

\* where the function body continues after a read that reported no exception:
\* an error (or a missing row / empty list) returns, otherwise the next read
NextStep(step, failed, paymentIds) ==
    CASE step = "family"   -> IF failed THEN "done" ELSE "students"
      [] step = "students" -> IF failed THEN "done" ELSE "payments"
      [] step = "payments" -> IF failed THEN "done"
                              ELSE IF paymentIds # {} THEN "links" ELSE "sessions"
      [] step = "links"    -> IF failed THEN "done" ELSE "sessions"
      [] step = "sessions" -> "eligibility"
      [] OTHER             -> "done"

NoResult == [familyId |-> "none", familyName |-> NoName, studentPaymentDetails |-> <<>>,
             hasAvailableDiscounts |-> FALSE, error |-> NoError]

(***************************************************************************)
(* The admin edit routes: forms, rows and the update statement             *)
(***************************************************************************)
Absent == "<absent>"        \* formData.get() of a field the form does not carry
Null == "<null>"
Missing == 0                \* a route parameter that is not there
RowIds == 1..NumRows
UnknownId == NumRows + 1    \* an id that is in no row
RequestIds == RowIds \cup {UnknownId}

StudentRequired == {"first_name", "last_name", "gender", "birth_date", "t_shirt_size", "school"}
StudentOptional == {"cell_phone", "email", "grade_level", "special_needs", "allergies",
                    "medications", "immunization_notes"}
StudentFields == StudentRequired \cup StudentOptional \cup {"immunizations_up_to_date"}

FamilyRequired == {"name", "email", "primary_phone", "address", "city", "province", "postal_code"}
FamilyOptional == {"emergency_contact", "health_info", "notes", "referral_source", "referral_name"}
FamilyFormFields == FamilyRequired \cup FamilyOptional
FamilyFields == FamilyFormFields \cup {"updated_at"}

BlankSets(F) == {R \in SUBSET F : Cardinality(R) <= MaxBlank}

\* submitted forms: every field filled, except a few required fields left out
\* or empty, the optional fields filled, left out or empty, the checkbox on or off
StudentForms ==
    {[f \in StudentFields |->
         IF f \in R THEN blank
         ELSE IF f \in StudentOptional THEN opt
         ELSE IF f = "immunizations_up_to_date" THEN box
         ELSE "a"] :
     R \in BlankSets(StudentRequired), blank \in {Absent, ""},
     opt \in {Absent, "", "a"}, box \in {Absent, "on"}}

FamilyForms ==
    {[f \in FamilyFormFields |->
         IF f \in R THEN blank
         ELSE IF f \in FamilyOptional THEN opt
         ELSE "a"] :
     R \in BlankSets(FamilyRequired), blank \in {Absent, ""}, opt \in {Absent, "", "a"}}

\* `!value`: null and the empty string are falsy
Falsy(v) == v = Absent \/ v = Null \/ v = ""

\* formData.get(name) as string | null
FormGet(form, f) == IF form[f] = Absent THEN Null ELSE form[f]

\* formData.get(name) as string || null
OrNull(v) == IF Falsy(v) THEN Null ELSE v

\* the student action's updateData
StudentUpdateData(form) ==
    [f \in StudentFields |->
        IF f \in StudentRequired THEN FormGet(form, f)
        ELSE IF f = "immunizations_up_to_date"
             THEN (IF form[f] = "on" THEN "true" ELSE "false")
        ELSE OrNull(FormGet(form, f))]

\* (mutant) the school check is left out
StudentFieldErrors_NoSchool(updateData) ==
    {f \in {"first_name", "last_name", "gender", "birth_date", "t_shirt_size"} :
        Falsy(updateData[f])}

\* the student action's `if (!updateData.x) fieldErrors.x = ...` lines
StudentFieldErrors(updateData) ==
    {f \in {"first_name", "last_name", "gender", "birth_date", "t_shirt_size", "school"} :
        Falsy(updateData[f])}

\* the family action's `if (!x) fieldErrors.x = ...` lines
FamilyFieldErrors(form) ==
    {f \in {"name", "email", "address", "city", "province", "postal_code", "primary_phone"} :
        Falsy(FormGet(form, f))}

\* (mutant) the notes column is stamped with the clock as well
FamilyUpdateData_StampsNotes(form, time) ==
    [f \in FamilyFields |-> IF f \in {"updated_at", "notes"} THEN time ELSE FormGet(form, f)]

\* the object given to families.update()
FamilyUpdateData(form, time) ==
    [f \in FamilyFields |-> IF f = "updated_at" THEN time ELSE FormGet(form, f)]

\* (mutant) the .eq('id', id) filter is left out
UpdateById_EveryRow(rows, id, patch) ==
    [r \in DOMAIN rows |->
        [f \in DOMAIN rows[r] |-> IF f \in DOMAIN patch THEN patch[f] ELSE rows[r][f]]]

\* supabase .from(table).update(patch).eq('id', id): the rows with that id get
\* the patch; a statement that matches no row changes nothing and reports no error
UpdateById(rows, id, patch) ==
    [r \in DOMAIN rows |->
        IF r = id THEN [f \in DOMAIN rows[r] |-> IF f \in DOMAIN patch THEN patch[f] ELSE rows[r][f]]
        ELSE rows[r]]

(***************************************************************************)
(* The program service                                                     *)
(***************************************************************************)
Undefined == "<undefined>"  \* a key the `updates` object does not carry

\* the columns updateProgram can write
ProgramUpdateFields ==
    {"name", "description", "duration_minutes", "max_capacity", "sessions_per_week",
     "min_sessions_per_week", "max_sessions_per_week", "min_belt_rank", "max_belt_rank",
     "belt_rank_required", "prerequisite_programs", "min_age", "max_age",
     "gender_restriction", "special_needs_support", "monthly_fee", "registration_fee",
     "yearly_fee", "individual_session_fee", "is_active"}
ProgramFields == ProgramUpdateFields \cup {"id", "created_at", "updated_at"}

InitialProgramRow ==
    [f \in ProgramFields |->
        CASE f = "is_active" -> "true"
          [] f \in {"created_at", "updated_at"} -> 0
          [] OTHER -> "old"]

\* the values a caller passes for the fields it varies; every other key of
\* `updates` is left out
ProgramUpdateChoices ==
    [name : {Undefined, "new"},
     description : {Undefined, Null, "new"},
     is_active : {Undefined, "false", "true"},
     id : {Undefined, "other"}]

\* the `updates` object: the columns updateProgram copies, and the id / created_at
\* keys a caller's object may carry besides
ProgramUpdates(choice) ==
    [f \in ProgramUpdateFields \cup {"id", "created_at"} |->
        IF f \in DOMAIN choice THEN choice[f] ELSE Undefined]

\* (mutant) `if (updates.x)`: null and false are dropped like undefined
ProgramUpdateData_TruthyOnly(updates, time) ==
    [f \in {g \in ProgramUpdateFields : updates[g] \notin {Undefined, Null, "false"}}
            \cup {"updated_at"} |->
        IF f = "updated_at" THEN time ELSE updates[f]]

\* updateData: updated_at, and `if (updates.x !== undefined) updateData.x = updates.x`
ProgramUpdateData(updates, time) ==
    [f \in {g \in ProgramUpdateFields : updates[g] # Undefined} \cup {"updated_at"} |->
        IF f = "updated_at" THEN time ELSE updates[f]]

\* the error of a statement that ends in .single(): a database failure, or
\* PGRST116 when the statement did not yield exactly one row
SingleErrorCode(rows, id, dbOutcome) ==
    IF dbOutcome = "error" THEN "other"
    ELSE IF id \notin DOMAIN rows THEN "PGRST116"
    ELSE "none"

\* updateProgram: `if (error) throw new Error('Failed to update program: ...')`
UpdateProgramResult(code) ==
    IF code # "none" THEN "thrown" ELSE "returned"

\* (mutant) not-found is thrown like any other error
GetProgramByIdResult_NotFoundThrows(code) ==
    IF code # "none" THEN "thrown" ELSE "returned"

\* getProgramById: null for PGRST116, a throw for any other error
GetProgramByIdResult(code) ==
    IF code # "none"
    THEN (IF code = "PGRST116" THEN "null" ELSE "thrown")
    ELSE "returned"

ServiceResponse(kind, code, message) ==
    [kind |-> kind, status |-> 0, fieldErrors |-> {}, updateIssued |-> FALSE,
     code |-> code, message |-> message]

(***************************************************************************)
(* The family account action: form schema                                  *)
(***************************************************************************)
Root == "<root>"            \* the empty issue path []
GoodEmail == "a@b.ca"
GuardianIds == {"g1", "g2"} \* guardian g1 is in the user's family, g2 in another
UnknownGuardianId == "g3"
UserFamilyId == 1           \* profiles.family_id of the signed-in user
Intents == <<"updateFamily", "updateGuardian", "updatePreferences">>

AccountFamilyText == {"name", "address", "city", "province", "postal_code", "primary_phone"}
AccountFamilyOptional == {"referral_source", "referral_name", "emergency_contact",
                          "health_info", "notes"}
GuardianText == {"first_name", "last_name", "relationship", "home_phone", "cell_phone"}
GuardianOptional == {"work_phone", "employer", "employer_phone", "employer_notes"}
GuardianFields == GuardianText \cup {"email"} \cup GuardianOptional \cup {"family_id"}
PasswordFields == {"currentPassword", "newPassword", "confirmPassword"}
PasswordValues == {Absent, "", "short", "weakpassword", "Strong1pass"}

InitialGuardianRow(g) ==
    [f \in GuardianFields |->
        IF f = "family_id" THEN (IF g = "g1" THEN UserFamilyId ELSE UserFamilyId + 1) ELSE "old"]

\* the keys of each member of formSchema, without `intent`
SchemaFields(intent) ==
    IF intent = "updateFamily" THEN AccountFamilyText \cup {"email"} \cup AccountFamilyOptional
    ELSE IF intent = "updateGuardian"
    THEN {"guardianId"} \cup GuardianText \cup {"email"} \cup GuardianOptional
    ELSE PasswordFields \cup {"receiveMarketingEmails"}

\* (mutant) the family email is only required to be non-empty
FieldKind_FamilyEmailAsText(intent, f) ==
    IF intent = "updateFamily" /\ f \in AccountFamilyText \cup {"email"} THEN "min1"
    ELSE IF intent = "updateGuardian" /\ f \in GuardianText THEN "trimmin1"
    ELSE IF intent = "updateGuardian" /\ f = "email" THEN "email"
    ELSE IF intent = "updateGuardian" /\ f = "guardianId" THEN "uuid"
    ELSE "optional"

\* the Zod type of a key: z.string().min(1), z.string().trim().min(1),
\* z.string().email(), z.string().uuid(), or an optional key
FieldKind(intent, f) ==
    IF intent = "updateFamily" /\ f \in AccountFamilyText THEN "min1"
    ELSE IF intent = "updateGuardian" /\ f \in GuardianText THEN "trimmin1"
    ELSE IF intent \in {"updateFamily", "updateGuardian"} /\ f = "email" THEN "email"
    ELSE IF intent = "updateGuardian" /\ f = "guardianId" THEN "uuid"
    ELSE "optional"

Trim(v) == IF v = " " THEN "" ELSE v
IsEmail(v) == v = GoodEmail
IsUuid(v) == v \in GuardianIds \cup {UnknownGuardianId}
Truthy(v) == ~Falsy(v)
PasswordLength(v) ==
    IF v = "short" THEN 5 ELSE IF v = "weakpassword" THEN 12
    ELSE IF v = "Strong1pass" THEN 11 ELSE 0
\* /^(?=.*[a-z])(?=.*[A-Z])(?=.*\d).{8,}$/
PasswordComplex(v) == v = "Strong1pass"

\* Object.fromEntries(formData.entries())[f]
Get(form, f) == IF f \in DOMAIN form THEN form[f] ELSE Absent

\* the parse status of one key: a type error aborts, a failed check makes dirty
FieldStatus(kind, v) ==
    IF kind = "optional" THEN "valid"
    ELSE IF v = Absent THEN "aborted"
    ELSE IF kind = "min1" THEN (IF v = "" THEN "dirty" ELSE "valid")
    ELSE IF kind = "trimmin1" THEN (IF Trim(v) = "" THEN "dirty" ELSE "valid")
    ELSE IF kind = "email" THEN (IF IsEmail(v) THEN "valid" ELSE "dirty")
    ELSE (IF IsUuid(v) THEN "valid" ELSE "dirty")

Issue(code, path, message) == [code |-> code, path |-> path, message |-> message]

FieldIssue(kind, f, v) ==
    IF v = Absent THEN Issue("invalid_type", f, "Required")
    ELSE IF kind \in {"min1", "trimmin1"} THEN Issue("too_small", f, "is required")
    ELSE Issue("invalid_string", f, "Invalid")

\* z.object({intent: z.literal(intent), ...}) applied to the form
ObjectResult(intent, form) ==
    LET literalOk == Get(form, "intent") = intent
        status(f) == FieldStatus(FieldKind(intent, f), Get(form, f))
        bad == {f \in SchemaFields(intent) : status(f) # "valid"}
        issues == {FieldIssue(FieldKind(intent, f), f, Get(form, f)) : f \in bad}
                  \cup (IF literalOk THEN {} ELSE {Issue("invalid_literal", "intent", "Invalid literal value")})
    IN  [status |-> IF ~literalOk \/ \E f \in bad : status(f) = "aborted" THEN "aborted"
                    ELSE IF bad # {} THEN "dirty" ELSE "valid",
         issues |-> issues]

\* the superRefine of preferencesSchema
RefineIssues(form) ==
    LET cur == Get(form, "currentPassword")
        new == Get(form, "newPassword")
        conf == Get(form, "confirmPassword")
    IN  (IF (Truthy(new) \/ Truthy(conf)) /\ ~Truthy(cur)
         THEN {Issue("custom", "currentPassword", "Current password is required to change password")}
         ELSE {})
        \cup (IF new # conf
              THEN {Issue("custom", "confirmPassword", "Passwords must match")} ELSE {})
        \cup (IF Truthy(new) /\ PasswordLength(new) < 8
              THEN {Issue("custom", "newPassword", "Password must be at least 8 characters")} ELSE {})
        \cup (IF Truthy(new) /\ ~PasswordComplex(new)
              THEN {Issue("custom", "newPassword", "Password must contain uppercase, lowercase, and number")}
              ELSE {})

\* one member of the union: the object, then (preferences only) its refinement,
\* which is skipped when the object aborted
OptionResult(intent, form) ==
    LET obj == ObjectResult(intent, form) IN
    IF intent # "updatePreferences" \/ obj.status = "aborted" THEN obj
    ELSE [status |-> IF obj.status = "dirty" \/ RefineIssues(form) # {} THEN "dirty" ELSE "valid",
          issues |-> obj.issues \cup RefineIssues(form)]

\* formSchema.safeParse: the first valid member; else the issues of the first
\* member that did not abort; else a single invalid_union issue at the root
SafeParse(form) ==
    LET res == [i \in 1..3 |-> OptionResult(Intents[i], form)]
        valid == {i \in 1..3 : res[i].status = "valid"}
        dirty == {i \in 1..3 : res[i].status = "dirty"}
        first(S) == CHOOSE i \in S : \A j \in S : i <= j
    IN  IF valid # {}
        THEN [success |-> TRUE, intent |-> Intents[first(valid)], issues |-> {}]
        ELSE IF dirty # {}
        THEN [success |-> FALSE, intent |-> "none", issues |-> res[first(dirty)].issues]
        ELSE [success |-> FALSE, intent |-> "none",
              issues |-> {Issue("invalid_union", Root, "Invalid input")}]

\* parsed.data without intent (and guardianId): the keys the form carries, strings
\* of trimmed keys trimmed; absent optional keys are not part of the object
ParsedData(intent, form) ==
    [f \in {g \in SchemaFields(intent) \ {"guardianId"} : Get(form, g) # Absent} |->
        IF FieldKind(intent, f) = "trimmin1" THEN Trim(form[f]) ELSE form[f]]

\* z.coerce.boolean().optional()
CoerceBoolean(v) == IF v = Absent THEN Undefined ELSE IF v = "" THEN "false" ELSE "true"

(***************************************************************************)
(* Submitted account forms                                                 *)
(***************************************************************************)
RequiredKeys(intent) == {f \in SchemaFields(intent) : FieldKind(intent, f) # "optional"}

GoodValue(kind) ==
    IF kind = "email" THEN GoodEmail ELSE IF kind = "uuid" THEN "g1" ELSE "good"

BadValues(kind) ==
    IF kind = "min1" THEN {Absent, ""}
    ELSE IF kind = "trimmin1" THEN {Absent, "", " "}
    ELSE IF kind = "email" THEN {Absent, "", "bad"}
    ELSE {Absent, "bad", "g2", UnknownGuardianId}

AllBadValues == {Absent, "", " ", "bad", "g2", UnknownGuardianId}

\* forms of one intent: every key well-formed, except a few required keys that
\* are left out or ill-formed (or name another guardian); optional keys all
\* filled or all left out
FormsOf(intent, sent) ==
    UNION {
        {[f \in SchemaFields(intent) \cup {"intent"} |->
             IF f = "intent" THEN sent
             ELSE IF f \in R THEN dev[f]
             ELSE IF FieldKind(intent, f) = "optional" THEN opt
             ELSE GoodValue(FieldKind(intent, f))] :
         dev \in {d \in [R -> AllBadValues] :
                    \A f \in R : d[f] \in BadValues(FieldKind(intent, f))},
         opt \in {Absent, "good"}} :
        R \in BlankSets(RequiredKeys(intent))}

PreferencesForms ==
    {[f \in SchemaFields("updatePreferences") \cup {"intent"} |->
         IF f = "intent" THEN "updatePreferences"
         ELSE IF f = "currentPassword" THEN cur
         ELSE IF f = "newPassword" THEN new
         ELSE IF f = "confirmPassword" THEN conf
         ELSE box] :
     cur \in PasswordValues, new \in PasswordValues, conf \in PasswordValues,
     box \in {Absent, "on"}}

\* well-formed family forms that also carry keys naming another family; the
\* object schema keeps only its own keys
OtherFamilyId == "2"
FormsNamingAnotherFamily ==
    {f @@ [id |-> OtherFamilyId, family_id |-> OtherFamilyId] :
        f \in {g \in FormsOf("updateFamily", "updateFamily") :
                   \A k \in DOMAIN g : g[k] # Absent /\ g[k] # ""}}

AccountForms ==
    FormsOf("updateFamily", "updateFamily") \cup FormsOf("updateGuardian", "updateGuardian")
    \cup PreferencesForms
    \cup FormsNamingAnotherFamily
    \cup {f \in FormsOf("updateFamily", "deleteFamily") : \A k \in DOMAIN f : f[k] # Absent /\ f[k] # ""}
    \cup {f \in FormsOf("updateFamily", Absent) : \A k \in DOMAIN f \ {"intent"} : f[k] # Absent /\ f[k] # ""}

AccountResponse(kind, status, errors, userRead, updateIssued, message) ==
    [kind |-> kind, status |-> status, errors |-> errors, userRead |-> userRead,
     updateIssued |-> updateIssued, message |-> message]

AccountTables == <<dbFamilies, dbGuardians, authUser>>

\* ---- loader() of admin.students.$studentId.tsx
\* what the belt_awards read yields: an error, no row, or the type of the latest award
BeltReads == {"error", Null, "yellow"}

\* the environment of one loader call
LoaderEnvs == [env : BOOLEAN, studentRead : {"ok", "error"}, beltRead : BeltReads]

LoaderResponse(kind, status, queries, student, belt) ==
    [kind |-> kind, status |-> status, fieldErrors |-> {}, updateIssued |-> FALSE,
     code |-> "none", message |-> "", queries |-> queries, student |-> student,
     currentBeltRank |-> belt]

\* `latestBeltAward?.type ?? null`
CurrentBeltRank(beltRead) == IF beltRead = "error" THEN Null ELSE beltRead

\* (mutant) a failed belt_awards read fails the loader
LoaderResult_BeltErrorFails(rows, id, e) ==
    IF id = Missing THEN LoaderResponse("thrown", 400, 0, Null, Null)
    ELSE IF ~e.env THEN LoaderResponse("thrown", 500, 0, Null, Null)
    ELSE IF e.studentRead = "error" \/ id \notin DOMAIN rows
    THEN LoaderResponse("thrown", 404, 1, Null, Null)
    ELSE IF e.beltRead = "error" THEN LoaderResponse("thrown", 500, 2, Null, Null)
    ELSE LoaderResponse("json", 200, 2, rows[id], CurrentBeltRank(e.beltRead))

\* the loader's checks in order, with the number of queries issued
LoaderResult(rows, id, e) ==
    IF id = Missing THEN LoaderResponse("thrown", 400, 0, Null, Null)
    ELSE IF ~e.env THEN LoaderResponse("thrown", 500, 0, Null, Null)
    ELSE IF e.studentRead = "error" \/ id \notin DOMAIN rows
    THEN LoaderResponse("thrown", 404, 1, Null, Null)
    ELSE LoaderResponse("json", 200, 2, rows[id], CurrentBeltRank(e.beltRead))

NoReq == [id |-> Missing, intent |-> "none", form |-> <<>>]
NoResp == [kind |-> "none", status |-> 0, fieldErrors |-> {}, updateIssued |-> FALSE,
           code |-> "none", message |-> ""]

Response(kind, status, fieldErrors, updateIssued) ==
    [kind |-> kind, status |-> status, fieldErrors |-> fieldErrors, updateIssued |-> updateIssued,
     code |-> "none", message |-> ""]

\* the tables as first loaded, no request in flight
AdminStart ==
    /\ now = 0
    /\ dbStudents = [r \in RowIds |-> [f \in StudentFields |-> "old"]]
    /\ dbFamilies = [r \in RowIds |-> [f \in FamilyFields |-> IF f = "updated_at" THEN 0 ELSE "old"]]
    /\ dbPrograms = [r \in RowIds |-> InitialProgramRow]
    /\ dbGuardians = [g \in GuardianIds |-> InitialGuardianRow(g)]
    /\ authUser = [password |-> "old", receive_marketing_emails |-> "true"]
    /\ phase = "idle"
    /\ req = NoReq
    /\ rowsBefore = <<>>
    /\ resp = NoResp

AdminIdle == route = "none" /\ AdminStart

\* no call of getFamilyPaymentEligibilityData in progress
EligIdle ==
    /\ dbStudentFamily = [s \in StudentIds |-> "f1"]
    /\ dbPayments = [p \in PaymentIds |-> [family_id |-> "f1", status |-> "pending"]]
    /\ dbLinks = {}
    /\ familyId = "f1"
    /\ pc = "done"
    /\ readLog = <<>>
    /\ failedReads = {}
    /\ students = <<>>
    /\ successfulPaymentIds = {}
    /\ paymentStudentLinks = {}
    /\ individualSessions = EmptySessions
    /\ studentPaymentDetails = <<>>
    /\ exitCause = "none"
    /\ result = NoResult

(***************************************************************************)
(* The notification service (browser side)                                 *)
(***************************************************************************)
MaxCalls == 3               \* getInstance calls on one page

Permissions == {"default", "granted", "denied"}

\* NotificationService.instance before the first getInstance
NoInstance == [id |-> 0, isSupported |-> FALSE, permission |-> "default"]

\* (mutant) getInstance constructs on every call
NeedsInstance_Always(inst) == TRUE

\* getInstance: `if (!NotificationService.instance)`
NeedsInstance(inst) == inst = NoInstance

\* the constructor: field initialisers, then the window branch
NewInstance(id, pg) ==
    IF pg.window
    THEN [id |-> id, isSupported |-> pg.notification,
          permission |-> IF pg.notification THEN pg.permission ELSE "denied"]
    ELSE [id |-> id, isSupported |-> FALSE, permission |-> "default"]

\* pushNotificationService before anything touched it
PushIdle == [initialized |-> 0, listeners |-> 0, pc |-> "idle"]

\* a page on which the module has not been evaluated yet
NotifyIdle ==
    /\ page = [window |-> TRUE, notification |-> TRUE, permission |-> "default"]
    /\ instance = NoInstance
    /\ constructed = 0
    /\ pushService = PushIdle
    /\ returned = {}
    /\ calls = 0

(***************************************************************************)
(* The program service: read functions                                     *)
(***************************************************************************)
StatsReads == {"programs", "classes", "enrollments"}
NoReads == [r \in StatsReads |-> "none"]

\* programs / classes tables with any of the row ids present, active or not
ActivityTables(row) ==
    UNION {[S -> {[row EXCEPT !["is_active"] = a] : a \in {"true", "false"}}] : S \in SUBSET RowIds}

ClassRow == [id |-> "c", is_active |-> "true"]

\* rows.filter(r => r.is_active).length
ActiveCount(rows) == Cardinality({r \in DOMAIN rows : rows[r]["is_active"] = "true"})

StatsResponse(kind, message, tp, ap, tc, ac) ==
    [kind |-> kind, status |-> 0, fieldErrors |-> {}, updateIssued |-> FALSE, code |-> "none",
     message |-> message, total_programs |-> tp, active_programs |-> ap,
     total_classes |-> tc, active_classes |-> ac]

\* (mutant) the error of the enrollments read, whose data is unused, is not looked at
StatsResult_EnrollmentErrorIgnored(results, programs, classes) ==
    IF results["programs"] = "error"
    THEN StatsResponse("thrown", "Failed to fetch program stats", 0, 0, 0, 0)
    ELSE IF results["classes"] = "error"
    THEN StatsResponse("thrown", "Failed to fetch class stats", 0, 0, 0, 0)
    ELSE StatsResponse("returned", "", Cardinality(DOMAIN programs), ActiveCount(programs),
                       Cardinality(DOMAIN classes), ActiveCount(classes))

\* getProgramStats after the Promise.all: the three error checks, then the counts
StatsResult(results, programs, classes) ==
    IF results["programs"] = "error"
    THEN StatsResponse("thrown", "Failed to fetch program stats", 0, 0, 0, 0)
    ELSE IF results["classes"] = "error"
    THEN StatsResponse("thrown", "Failed to fetch class stats", 0, 0, 0, 0)
    ELSE IF results["enrollments"] = "error"
    THEN StatsResponse("thrown", "Failed to fetch enrollment stats", 0, 0, 0, 0)
    ELSE StatsResponse("returned", "", Cardinality(DOMAIN programs), ActiveCount(programs),
                       Cardinality(DOMAIN classes), ActiveCount(classes))

\* ---- checkProgramEligibility / getProgramsForStudent
\* what one supabase.rpc('check_program_eligibility') call yields: the boolean
\* (or null) the database function returned, an error object, or an exception
RpcOutcomes == {"true", "false", Null, "error", "throw"}

\* Boolean(data) for the values the database function returns
IsEligible(data) == data = "true"

\* (mutant) an RPC error is treated as eligible
CheckProgramEligibility_FailsOpen(outcome) ==
    IF outcome = "error" THEN [eligible |-> TRUE, reasons |-> <<>>]
    ELSE IF outcome = "throw"
    THEN [eligible |-> FALSE, reasons |-> <<"System error checking eligibility">>]
    ELSE IF IsEligible(outcome) THEN [eligible |-> TRUE, reasons |-> <<>>]
    ELSE [eligible |-> FALSE, reasons |-> <<"Student does not meet program requirements">>]

\* checkProgramEligibility, given what its rpc call yields
CheckProgramEligibility(outcome) ==
    IF outcome = "error"
    THEN [eligible |-> FALSE, reasons |-> <<"Error checking eligibility">>]
    ELSE IF outcome = "throw"
    THEN [eligible |-> FALSE, reasons |-> <<"System error checking eligibility">>]
    ELSE IF IsEligible(outcome) THEN [eligible |-> TRUE, reasons |-> <<>>]
    ELSE [eligible |-> FALSE, reasons |-> <<"Student does not meet program requirements">>]

ProgramNames == {"a", "b"}
NameRank(n) == IF n = "a" THEN 1 ELSE 2

\* programs tables with any of the row ids present, named and active or not
NamedTables ==
    UNION {[S -> {[InitialProgramRow EXCEPT !["name"] = n, !["is_active"] = a] :
                     n \in ProgramNames, a \in {"true", "false"}}] : S \in SUBSET RowIds}

\* (mutant) the is_active filter is not applied
GetProgramsRows_NoFilter(rows, isActive) == DOMAIN rows

\* getPrograms: `query.eq('is_active', filters.is_active)` when the filter is given
GetProgramsRows(rows, isActive) ==
    IF isActive = Undefined THEN DOMAIN rows
    ELSE {r \in DOMAIN rows : rows[r]["is_active"] = isActive}

\* getPrograms: `query.order('name')`: the ways the database may list the rows,
\* rows of equal name in either order
GetPrograms(rows, isActive) ==
    {o \in Orderings(GetProgramsRows(rows, isActive)) :
        \A i \in 1..Len(o), j \in 1..Len(o) :
            i < j => NameRank(rows[o[i]]["name"]) <= NameRank(rows[o[j]]["name"])}

\* the loop of getProgramsForStudent over allPrograms
EligiblePrograms(allPrograms, outcomes) ==
    LET keep(id) == CheckProgramEligibility(outcomes[id]).eligible
    IN  SelectSeq(allPrograms, keep)

EligibilityResponse(kind, message, programs, listed, eligible, reasons) ==
    [kind |-> kind, status |-> 0, fieldErrors |-> {}, updateIssued |-> FALSE, code |-> "none",
     message |-> message, programs |-> programs, listed |-> listed,
     eligible |-> eligible, reasons |-> reasons]

\* no read function running
ReadsIdle ==
    /\ dbClasses = [r \in RowIds |-> ClassRow]
    /\ rpc = [r \in RowIds |-> "true"]
    /\ reads = NoReads
    /\ settled = <<>>

(***************************************************************************)
(* The account action's updateGuardian, statement by statement             *)
(***************************************************************************)
\* a signed-in user whose profile names the family UserFamilyId
SignedIn == [user |-> "u1", family |-> UserFamilyId]

\* auth.getUser() yields a user or none; profiles.family_id is set or not
Sessions == [user : {"none", "u1"}, family : {Missing, UserFamilyId}]

\* (mutant) the check looks only for the guardian id
OwnsGuardian_AnyFamily(rows, g, family) == g \in DOMAIN rows

\* guardians .select('id').eq('id', guardianId).eq('family_id', family_id)
\* .maybeSingle() yields a row
OwnsGuardian(rows, g, family) == g \in DOMAIN rows /\ rows[g]["family_id"] = family

(***************************************************************************)
(* AdminStudentDetailPage                                                  *)
(***************************************************************************)
\* the forms the page's <Form> can post: every input is sent, a text input
\* possibly empty; an unchecked checkbox is not sent
PageForms ==
    {f \in StudentForms : \A k \in StudentRequired \cup StudentOptional : f[k] # Absent}

\* the student whose page is open: the first row
PageStudentId == CHOOSE r \in RowIds : \A q \in RowIds : r <= q

\* navigation.state of useNavigation(), from the state of the submission
NavigationState ==
    IF phase = "pending" THEN "submitting"
    ELSE IF phase = "responded" THEN "loading"
    ELSE "idle"

\* the condition of the effect: actionData?.success && isEditing &&
\* navigation.state === 'idle'
ResetsEditMode(data, editing, navState) ==
    data = "success" /\ editing /\ navState = "idle"

\* the page as first rendered
PageIdle ==
    /\ isEditing = FALSE
    /\ actionData = Undefined
    /\ effectDue = FALSE
    /\ lastEvent = "none"

(***************************************************************************)
(* NotificationSettingsContent (settings component)                        *)
(***************************************************************************)
\* enabled.toString()
BoolString(b) == IF b THEN "true" ELSE "false"

\* the useState initial values
InitialSettings ==
    [isSupported |-> FALSE, isPushSupported |-> FALSE, permission |-> "default",
     userEnabled |-> TRUE, pushSubscribed |-> FALSE, isLoading |-> FALSE]

\* the state after the mount effect and its checkPushSubscription
Mounted(pg, push, item, subscribed) ==
    [isSupported |-> pg.notification,
     isPushSupported |-> push,
     permission |-> IF pg.notification THEN pg.permission ELSE "default",
     userEnabled |-> IF pg.notification THEN item # "false" ELSE TRUE,
     pushSubscribed |-> push /\ subscribed,
     isLoading |-> FALSE]

\* handleSubscribeToPush: `if (!isPushSupported || permission !== 'granted') return;`
\* evaluated on the values of the render in which the handler was created
PassesSubscribeGuard(closure) == closure.isPushSupported /\ closure.permission = "granted"

\* handleRequestPermission: `if (userEnabled && isPushSupported)`
WantsPush(closure) == closure.userEnabled /\ closure.isPushSupported

\* what Notification.requestPermission() can yield: the user's answer to the
\* prompt, or the permission already decided
PromptAnswers(current) ==
    IF current = "default" THEN Permissions \cup {"throw"} ELSE {current, "throw"}

NoLast == [fn |-> "none"]

(***************************************************************************)
(* NotificationService: its methods                                        *)
(***************************************************************************)
MaxTasks == 2               \* service calls in flight at once

\* areNotificationsEnabled()
AreNotificationsEnabled(inst) == inst.isSupported /\ inst.permission = "granted"

\* isPageVisible(): true where there is no document
IsPageVisible(pg, hid) == IF pg.window THEN ~hid ELSE TRUE

\* (mutant) an unset preference counts as disabled
AreNotificationsEnabledByUser_UnsetIsOff(pg, item) == pg.window /\ item = "true"

\* areNotificationsEnabledByUser(): false where there is no window, else
\* whether the stored item is anything but 'false'
AreNotificationsEnabledByUser(pg, item) == pg.window /\ item # "false"

\* shouldShowNotification()
ShouldShowNotification(inst, pg, item, hid) ==
    /\ AreNotificationsEnabled(inst)
    /\ AreNotificationsEnabledByUser(pg, item)
    /\ ~IsPageVisible(pg, hid)

\* (mutant) subscribeToPushNotifications does not look at the permission
MaySubscribe_PushOnly(inst, push) == push

\* subscribeToPushNotifications passes its guard
\* `!this.isPushNotificationSupported() || this.permission !== 'granted'`
MaySubscribe(inst, push) == push /\ inst.permission = "granted"

\* requestPermission: `permission === 'granted' && this.areNotificationsEnabledByUser()`
StartsSubscription(answer, pg, item) ==
    answer = "granted" /\ AreNotificationsEnabledByUser(pg, item)

\* a service call in flight
ServiceTask(fn, at, answer, made, item) ==
    [fn |-> fn, pc |-> at, answer |-> answer, made |-> made, preference |-> item]

\* the methods that read push support, the stored preference, document.hidden
ReadsPushSupport == {"requestPermission", "subscribeToPushNotifications",
                     "setNotificationPreference"}
ReadsPreference == {"requestPermission", "shouldShowNotification"}
ReadsVisibility == {"shouldShowNotification"}

\* what a call returned, what it called on the way, and the values it read
\* (a value the method does not read is recorded as FALSE or null)
Observation(fn, value, answer, made, inst, pg, item) ==
    [fn |-> fn, result |-> value, answer |-> answer, made |-> made,
     supported |-> inst.isSupported, tracked |-> inst.permission, actual |-> pg.permission,
     push |-> IF fn \in ReadsPushSupport THEN pushManager ELSE FALSE,
     preference |-> IF fn \in ReadsPreference THEN item ELSE Null,
     hidden |-> IF fn \in ReadsVisibility THEN hidden ELSE FALSE]

\* the service calls in flight are a bag: one more call t, one call t less
Started(q, t) == q (+) SetToBag({t})
Settled(q, t) == q (-) SetToBag({t})

\* no notification code has run
BrowserIdle ==
    /\ storage = Null
    /\ pushManager = FALSE
    /\ subscription = FALSE
    /\ hidden = FALSE
    /\ settings = InitialSettings
    /\ tasks = <<>>
    /\ last = NoLast

ClientIdle == PageIdle /\ BrowserIdle

\* no resubmission in progress
NoPrev == [req |-> NoReq, rows |-> <<>>, kind |-> "none", again |-> FALSE]
ExtIdle ==
    /\ prev = NoPrev
    /\ NotifyIdle
    /\ ReadsIdle
    /\ session = SignedIn
    /\ ClientIdle

(***************************************************************************)
(* SpecAdmin: the admin student edit action and the admin family edit      *)
(* action.  The two routes touch disjoint tables; a behaviour sends its    *)
(* requests to one of them.                                                *)
(***************************************************************************)
InitAdmin ==
    /\ route \in {"student", "family"}
    /\ AdminStart
    /\ EligIdle
    /\ ExtIdle

Tick ==
    /\ phase = "idle"
    /\ now < MaxTime
    /\ now' = now + 1
    /\ UNCHANGED <<route, dbStudents, dbFamilies, dbPrograms, acctTables, phase, req, rowsBefore, resp>>

\* a POST to /admin/students/:studentId arrives
ReceiveStudentRequest ==
    /\ route = "student"
    /\ phase = "idle"
    /\ \E id \in RequestIds \cup {Missing}, intent \in {"edit", "other"}, form \in StudentForms :
          req' = [id |-> id, intent |-> intent, form |-> form]
    /\ rowsBefore' = dbStudents
    /\ phase' = "pending"
    /\ resp' = NoResp
    /\ UNCHANGED <<route, now, dbStudents, dbFamilies, dbPrograms, acctTables>>

\* a POST to the admin family edit route arrives
ReceiveFamilyRequest ==
    /\ route = "family"
    /\ phase = "idle"
    /\ \E id \in RequestIds \cup {Missing}, form \in FamilyForms :
          req' = [id |-> id, intent |-> "none", form |-> form]
    /\ rowsBefore' = dbFamilies
    /\ phase' = "pending"
    /\ resp' = NoResp
    /\ UNCHANGED <<route, now, dbStudents, dbFamilies, dbPrograms, acctTables>>

\* a GET of /admin/students/:studentId arrives
ReceiveStudentLoad ==
    /\ route = "student"
    /\ phase = "idle"
    /\ \E id \in RequestIds \cup {Missing}, e \in LoaderEnvs :
          req' = [id |-> id, intent |-> "load", form |-> e]
    /\ rowsBefore' = dbStudents
    /\ phase' = "pending"
    /\ resp' = NoResp
    /\ UNCHANGED <<route, now, dbStudents, dbFamilies, dbPrograms, acctTables>>

\* loader() of admin.students.$studentId.tsx
AdminStudentLoader ==
    /\ route = "student"
    /\ phase = "pending"
    /\ req.intent = "load"
    /\ phase' = "responded"
    /\ resp' = LoaderResult(dbStudents, req.id, req.form)
    /\ UNCHANGED <<route, now, dbStudents, dbFamilies, dbPrograms, acctTables, req, rowsBefore>>

\* action() of admin.students.$studentId.tsx
AdminStudentAction ==
    /\ route = "student"
    /\ phase = "pending"
    /\ req.intent # "load"
    /\ phase' = "responded"
    /\ LET updateData == StudentUpdateData(req.form)
           fieldErrors == StudentFieldErrors(updateData)
       IN  IF req.id = Missing
           THEN resp' = Response("error", 400, {}, FALSE) /\ UNCHANGED dbStudents
           ELSE IF req.intent # "edit"
           THEN resp' = Response("error", 400, {}, FALSE) /\ UNCHANGED dbStudents
           ELSE IF fieldErrors # {}
           THEN resp' = Response("fieldErrors", 400, fieldErrors, FALSE) /\ UNCHANGED dbStudents
           ELSE \E envOk \in BOOLEAN, dbOutcome \in {"ok", "error"} :
                  IF ~envOk
                  THEN resp' = Response("error", 500, {}, FALSE) /\ UNCHANGED dbStudents
                  ELSE IF dbOutcome = "error"
                  THEN resp' = Response("error", 500, {}, TRUE) /\ UNCHANGED dbStudents
                  ELSE /\ dbStudents' = UpdateById(dbStudents, req.id, updateData)
                       /\ resp' = Response("success", 200, {}, TRUE)
    /\ UNCHANGED <<route, now, dbFamilies, dbPrograms, acctTables, req, rowsBefore>>

\* action() of the admin family edit route
AdminFamilyAction ==
    /\ route = "family"
    /\ phase = "pending"
    /\ phase' = "responded"
    /\ LET fieldErrors == FamilyFieldErrors(req.form)
       IN  IF req.id = Missing
           THEN resp' = Response("thrown", 500, {}, FALSE) /\ UNCHANGED dbFamilies
           ELSE IF fieldErrors # {}
           THEN resp' = Response("fieldErrors", 400, fieldErrors, FALSE) /\ UNCHANGED dbFamilies
           ELSE \E envOk \in BOOLEAN, dbOutcome \in {"ok", "error"} :
                  IF ~envOk
                  THEN resp' = Response("error", 500, {}, FALSE) /\ UNCHANGED dbFamilies
                  ELSE IF dbOutcome = "error"
                  THEN resp' = Response("error", 500, {}, TRUE) /\ UNCHANGED dbFamilies
                  ELSE /\ dbFamilies' = UpdateById(dbFamilies, req.id, FamilyUpdateData(req.form, now))
                       /\ resp' = Response("redirect", 302, {}, TRUE)
    /\ UNCHANGED <<route, now, dbStudents, dbPrograms, acctTables, req, rowsBefore>>

\* the response has been delivered
Finish ==
    /\ phase = "responded"
    /\ phase' = "idle"
    /\ req' = NoReq
    /\ rowsBefore' = <<>>
    /\ resp' = NoResp
    /\ UNCHANGED <<route, now, dbStudents, dbFamilies, dbPrograms, acctTables>>

NextAdmin ==
    \/ Tick /\ UNCHANGED <<eligVars, extVars>>
    \/ ReceiveStudentRequest /\ UNCHANGED <<eligVars, extVars>>
    \/ ReceiveFamilyRequest /\ UNCHANGED <<eligVars, extVars>>
    \/ ReceiveStudentLoad /\ UNCHANGED <<eligVars, extVars>>
    \/ AdminStudentLoader /\ UNCHANGED <<eligVars, extVars>>
    \/ AdminStudentAction /\ UNCHANGED <<eligVars, extVars>>
    \/ AdminFamilyAction /\ UNCHANGED <<eligVars, extVars>>
    \/ Finish /\ UNCHANGED <<eligVars, extVars>>

SpecAdmin == InitAdmin /\ [][NextAdmin]_vars

(***************************************************************************)
(* SpecProgram: calls of the program service                               *)
(***************************************************************************)
InitProgram ==
    /\ route = "program"
    /\ AdminStart
    /\ EligIdle
    /\ ExtIdle

\* a caller invokes updateProgram(id, updates) or getProgramById(id)
CallProgramService ==
    /\ route = "program"
    /\ phase = "idle"
    /\ \E id \in RequestIds :
          \/ \E choice \in ProgramUpdateChoices :
                req' = [id |-> id, intent |-> "updateProgram", form |-> ProgramUpdates(choice)]
          \/ req' = [id |-> id, intent |-> "getProgramById", form |-> <<>>]
    /\ rowsBefore' = dbPrograms
    /\ phase' = "pending"
    /\ resp' = NoResp
    /\ UNCHANGED <<route, now, dbStudents, dbFamilies, dbPrograms, acctTables>>

\* updateProgram: .update(updateData).eq('id', id).select().single()
UpdateProgram ==
    /\ route = "program"
    /\ phase = "pending"
    /\ req.intent = "updateProgram"
    /\ phase' = "responded"
    /\ \E dbOutcome \in {"ok", "error"} :
         LET code == SingleErrorCode(dbPrograms, req.id, dbOutcome)
             kind == UpdateProgramResult(code)
         IN  /\ dbPrograms' = IF dbOutcome = "ok"
                              THEN UpdateById(dbPrograms, req.id, ProgramUpdateData(req.form, now))
                              ELSE dbPrograms
             /\ resp' = ServiceResponse(kind, code,
                           IF kind = "thrown" THEN "Failed to update program" ELSE "")
    /\ UNCHANGED <<route, now, dbStudents, dbFamilies, acctTables, req, rowsBefore>>

\* getProgramById: .select('*').eq('id', id).single()
GetProgramById ==
    /\ route = "program"
    /\ phase = "pending"
    /\ req.intent = "getProgramById"
    /\ phase' = "responded"
    /\ \E dbOutcome \in {"ok", "error"} :
         LET code == SingleErrorCode(dbPrograms, req.id, dbOutcome)
             kind == GetProgramByIdResult(code)
         IN  resp' = ServiceResponse(kind, code,
                        IF kind = "thrown" THEN "Failed to fetch program" ELSE "")
    /\ UNCHANGED <<route, now, dbStudents, dbFamilies, dbPrograms, acctTables, req, rowsBefore>>

NextProgram ==
    \/ Tick /\ UNCHANGED <<eligVars, extVars>>
    \/ CallProgramService /\ UNCHANGED <<eligVars, extVars>>
    \/ UpdateProgram /\ UNCHANGED <<eligVars, extVars>>
    \/ GetProgramById /\ UNCHANGED <<eligVars, extVars>>
    \/ Finish /\ UNCHANGED <<eligVars, extVars>>

SpecProgram == InitProgram /\ [][NextProgram]_vars

(***************************************************************************)
(* SpecAccount: the family account action                                  *)
(***************************************************************************)
InitAccount ==
    /\ route = "account"
    /\ AdminStart
    /\ EligIdle
    /\ ExtIdle

\* a POST to /family/account arrives
ReceiveAccountRequest ==
    /\ route = "account"
    /\ phase = "idle"
    /\ \E form \in AccountForms : req' = [id |-> Missing, intent |-> form["intent"], form |-> form]
    /\ rowsBefore' = AccountTables
    /\ phase' = "pending"
    /\ resp' = NoResp
    /\ UNCHANGED <<route, now, dbStudents, dbFamilies, dbPrograms, acctTables>>

\* action() of _layout.family.account.tsx
AccountAction ==
    /\ route = "account"
    /\ phase = "pending"
    /\ phase' = "responded"
    /\ LET parsed == SafeParse(req.form)
           intent == parsed.intent
           data == ParsedData(intent, req.form)
       IN
       IF ~parsed.success
       THEN /\ resp' = AccountResponse("error", 400, parsed.issues, FALSE, FALSE, "Invalid form data.")
            /\ UNCHANGED <<dbFamilies, dbGuardians, authUser>>
       ELSE \E user \in {"none", "u1"}, profileOutcome \in {"error", "nofamily", "ok"},
               checkOutcome \in {"ok", "error"}, dbOutcome \in {"ok", "error"} :
          LET profile == UserFamilyId IN
          IF user = "none"
          THEN /\ resp' = AccountResponse("error", 401, {}, TRUE, FALSE, "User not authenticated.")
               /\ UNCHANGED <<dbFamilies, dbGuardians, authUser>>
          ELSE IF intent = "updateFamily"
          THEN IF profileOutcome # "ok"
               THEN /\ resp' = AccountResponse("error", 404, {}, TRUE, FALSE,
                                               "Could not find associated family.")
                    /\ UNCHANGED <<dbFamilies, dbGuardians, authUser>>
               ELSE IF dbOutcome = "error"
               THEN /\ resp' = AccountResponse("error", 500, {}, TRUE, TRUE,
                                               "Failed to update information")
                    /\ UNCHANGED <<dbFamilies, dbGuardians, authUser>>
               ELSE /\ dbFamilies' = UpdateById(dbFamilies, profile, data)
                    /\ resp' = AccountResponse("success", 200, {}, TRUE, TRUE,
                                               "Family information updated successfully.")
                    /\ UNCHANGED <<dbGuardians, authUser>>
          ELSE IF intent = "updateGuardian"
          THEN LET guardianId == req.form["guardianId"] IN
               IF profileOutcome # "ok"
               THEN /\ resp' = AccountResponse("error", 404, {}, TRUE, FALSE,
                                               "Could not find associated family.")
                    /\ UNCHANGED <<dbFamilies, dbGuardians, authUser>>
               ELSE IF \/ checkOutcome = "error"
                       \/ guardianId \notin DOMAIN dbGuardians
                       \/ dbGuardians[guardianId].family_id # profile
               THEN /\ resp' = AccountResponse("error", 404, {}, TRUE, FALSE,
                                               "Guardian not found or access denied.")
                    /\ UNCHANGED <<dbFamilies, dbGuardians, authUser>>
               ELSE IF dbOutcome = "error"
               THEN /\ resp' = AccountResponse("error", 500, {}, TRUE, TRUE,
                                               "Failed to update information")
                    /\ UNCHANGED <<dbFamilies, dbGuardians, authUser>>
               ELSE /\ dbGuardians' = UpdateById(dbGuardians, guardianId, data)
                    /\ resp' = AccountResponse("success", 200, {}, TRUE, TRUE,
                                               "Guardian information updated successfully.")
                    /\ UNCHANGED <<dbFamilies, authUser>>
          ELSE LET new == Get(req.form, "newPassword")
                   cur == Get(req.form, "currentPassword")
                   marketing == CoerceBoolean(Get(req.form, "receiveMarketingEmails"))
                   issued == (Truthy(new) /\ Truthy(cur)) \/ ~Truthy(new)
               IN
               IF issued /\ dbOutcome = "error"
               THEN /\ resp' = AccountResponse("error", 500, {}, TRUE, TRUE,
                                               "Failed to update information")
                    /\ UNCHANGED <<dbFamilies, dbGuardians, authUser>>
               ELSE /\ authUser' =
                          [password |-> IF Truthy(new) /\ Truthy(cur) THEN new ELSE authUser.password,
                           receive_marketing_emails |->
                               IF issued /\ marketing # Undefined THEN marketing
                               ELSE authUser.receive_marketing_emails]
                    /\ resp' = AccountResponse("success", 200, {}, TRUE, issued,
                                               "Preferences updated successfully")
                    /\ UNCHANGED <<dbFamilies, dbGuardians>>
    /\ UNCHANGED <<route, now, dbStudents, dbPrograms, req, rowsBefore>>

NextAccount ==
    \/ ReceiveAccountRequest /\ UNCHANGED <<eligVars, extVars>>
    \/ AccountAction /\ UNCHANGED <<eligVars, extVars>>
    \/ Finish /\ UNCHANGED <<eligVars, extVars>>

SpecAccount == InitAccount /\ [][NextAccount]_vars

(***************************************************************************)
(* SpecElig: getFamilyPaymentEligibilityData                               *)
(***************************************************************************)
InitElig ==
    /\ dbStudentFamily \in [StudentIds -> FamilyRows]
    /\ dbPayments \in [PaymentIds -> [family_id : FamilyRows, status : PaymentStatuses]]
    /\ dbLinks \in SUBSET (StudentIds \X PaymentIds)
    /\ familyId \in RequestedFamilyIds
    /\ pc = "family"
    /\ readLog = <<>>
    /\ failedReads = {}
    /\ students = <<>>
    /\ successfulPaymentIds = {}
    /\ paymentStudentLinks = {}
    /\ individualSessions = EmptySessions
    /\ studentPaymentDetails = <<>>
    /\ exitCause = "none"
    /\ result = NoResult
    /\ AdminIdle
    /\ ExtIdle

dbVarsElig == <<dbStudentFamily, dbPayments, dbLinks, familyId>>

\* the outer catch block
Caught(step) ==
    /\ pc' = "done"
    /\ exitCause' = "thrown"
    /\ failedReads' = failedReads \cup {step}
    /\ result' = ErrorResult(familyId, NoName, studentPaymentDetails,
                             "An unexpected error occurred while loading payment information.")

\* an early return with an error message
Return(step, cause, name, message) ==
    /\ pc' = NextStep(step, TRUE, {})
    /\ exitCause' = cause
    /\ result' = ErrorResult(familyId, name, studentPaymentDetails, message)

\* 1. Fetch Family Name
FetchFamily ==
    /\ pc = "family"
    /\ readLog' = Append(readLog, Log("family", 0))
    /\ \E outcome \in ReadOutcomes :
        \/ /\ outcome = "throw"
           /\ Caught("family")
        \/ /\ outcome = "error" \/ (outcome = "ok" /\ familyId \notin FamilyRows)
           /\ failedReads' = failedReads \cup {"family"}
           /\ Return("family", "family", NoName, "Could not load family details.")
        \/ /\ outcome = "ok" /\ familyId \in FamilyRows
           /\ pc' = NextStep("family", FALSE, {})
           /\ UNCHANGED <<failedReads, exitCause, result>>
    /\ UNCHANGED <<dbVarsElig, students, successfulPaymentIds, paymentStudentLinks,
                   individualSessions, studentPaymentDetails>>

\* 2. Fetch Students for the Family
FetchStudents ==
    /\ pc = "students"
    /\ readLog' = Append(readLog, Log("students", 0))
    /\ \E outcome \in ReadOutcomes :
        \/ /\ outcome = "throw"
           /\ Caught("students")
           /\ UNCHANGED students
        \/ /\ outcome = "error"
           /\ failedReads' = failedReads \cup {"students"}
           /\ Return("students", "students", familyId, "Could not load student information.")
           /\ UNCHANGED students
        \/ /\ outcome = "ok"
           /\ LET rows == {s \in StudentIds : dbStudentFamily[s] = familyId} IN
              IF rows = {}
              THEN /\ Return("students", "noStudents", familyId, "No students found in this family.")
                   /\ UNCHANGED <<students, failedReads>>
              ELSE /\ \E order \in Orderings(rows) : students' = order
                   /\ pc' = NextStep("students", FALSE, {})
                   /\ UNCHANGED <<failedReads, exitCause, result>>
    /\ UNCHANGED <<dbVarsElig, successfulPaymentIds, paymentStudentLinks,
                   individualSessions, studentPaymentDetails>>

\* 3. Fetch Successful Payments for the Family
FetchPayments ==
    /\ pc = "payments"
    /\ readLog' = Append(readLog, Log("payments", 0))
    /\ \E outcome \in ReadOutcomes :
        \/ /\ outcome = "throw"
           /\ Caught("payments")
           /\ UNCHANGED successfulPaymentIds
        \/ /\ outcome = "error"
           /\ failedReads' = failedReads \cup {"payments"}
           /\ Return("payments", "payments", familyId, "Could not load payment history.")
           /\ UNCHANGED successfulPaymentIds
        \/ /\ outcome = "ok"
           /\ successfulPaymentIds' = SucceededPaymentIds(familyId)
           /\ pc' = NextStep("payments", FALSE, successfulPaymentIds')
           /\ UNCHANGED <<failedReads, exitCause, result>>
    /\ UNCHANGED <<dbVarsElig, students, paymentStudentLinks,
                   individualSessions, studentPaymentDetails>>

\* 4. Fetch Payment-Student Links for Successful Payments
FetchLinks ==
    /\ pc = "links"
    /\ readLog' = Append(readLog, Log("links", 0))
    /\ \E outcome \in ReadOutcomes :
        \/ /\ outcome = "throw"
           /\ Caught("links")
           /\ UNCHANGED paymentStudentLinks
        \/ /\ outcome = "error"
           /\ failedReads' = failedReads \cup {"links"}
           /\ Return("links", "links", familyId, "Could not load payment link history.")
           /\ UNCHANGED paymentStudentLinks
        \/ /\ outcome = "ok"
           /\ paymentStudentLinks' = LinksForPayments(successfulPaymentIds)
           /\ pc' = NextStep("links", FALSE, successfulPaymentIds)
           /\ UNCHANGED <<failedReads, exitCause, result>>
    /\ UNCHANGED <<dbVarsElig, students, successfulPaymentIds,
                   individualSessions, studentPaymentDetails>>

\* 5. getFamilyIndividualSessions: an error or an exception gives the zero record
FetchSessions ==
    /\ pc = "sessions"
    /\ readLog' = Append(readLog, Log("sessions", 0))
    /\ \E outcome \in ReadOutcomes :
        \/ /\ outcome \in {"error", "throw"}
           /\ failedReads' = failedReads \cup {"sessions"}
           /\ individualSessions' = EmptySessions
        \/ /\ outcome = "ok"
           /\ \E rows \in SessionRowChoices : individualSessions' = SessionInfo(rows)
           /\ UNCHANGED failedReads
    /\ pc' = NextStep("sessions", FALSE, successfulPaymentIds)
    /\ UNCHANGED <<dbVarsElig, students, successfulPaymentIds, paymentStudentLinks,
                   studentPaymentDetails, exitCause, result>>

\* 6. one iteration of `for (const student of students)`
CheckEligibility ==
    /\ pc = "eligibility"
    /\ LET s == students[Len(studentPaymentDetails) + 1] IN
       /\ readLog' = Append(readLog, Log("eligibility", s))
       /\ \/ /\ Caught("eligibility")
             /\ UNCHANGED studentPaymentDetails
          \/ \E reason \in EligibilityReasons :
               /\ studentPaymentDetails' =
                      Append(studentPaymentDetails,
                             StudentDetail(s, reason, paymentStudentLinks, individualSessions))
               /\ pc' = IF Len(studentPaymentDetails') = Len(students)
                        THEN "discounts" ELSE "eligibility"
               /\ UNCHANGED <<failedReads, exitCause, result>>
    /\ UNCHANGED <<dbVarsElig, students, successfulPaymentIds, paymentStudentLinks,
                   individualSessions>>

\* 7. Check for Available Discounts, and the final return
FetchDiscounts ==
    /\ pc = "discounts"
    /\ readLog' = Append(readLog, Log("discounts", 0))
    /\ \E outcome \in ReadOutcomes :
        \/ /\ outcome = "throw"
           /\ Caught("discounts")
        \/ /\ outcome \in {"ok", "error"}
           /\ \E rowCount \in 0..1 :
                /\ (outcome = "error" => rowCount = 0)
                /\ result' = SuccessResult(familyId, familyId, studentPaymentDetails,
                                           HasAvailableDiscounts(outcome, rowCount))
           /\ failedReads' = IF outcome = "error" THEN failedReads \cup {"discounts"}
                             ELSE failedReads
           /\ exitCause' = "completed"
           /\ pc' = "done"
    /\ UNCHANGED <<dbVarsElig, students, successfulPaymentIds, paymentStudentLinks,
                   individualSessions, studentPaymentDetails>>

NextElig ==
    \/ FetchFamily /\ UNCHANGED <<adminVars, extVars>>
    \/ FetchStudents /\ UNCHANGED <<adminVars, extVars>>
    \/ FetchPayments /\ UNCHANGED <<adminVars, extVars>>
    \/ FetchLinks /\ UNCHANGED <<adminVars, extVars>>
    \/ FetchSessions /\ UNCHANGED <<adminVars, extVars>>
    \/ CheckEligibility /\ UNCHANGED <<adminVars, extVars>>
    \/ FetchDiscounts /\ UNCHANGED <<adminVars, extVars>>

SpecElig == InitElig /\ [][NextElig]_vars

(***************************************************************************)
(* Properties of getFamilyPaymentEligibilityData (checked under SpecElig)  *)
(***************************************************************************)
Returned == pc = "done"
Details == result.studentPaymentDetails
CriticalReads == {"family", "students", "payments", "links"}
EarlyExits == {"family", "students", "noStudents", "payments", "links"}
ReadsInLog == {readLog[i].read : i \in 1..Len(readLog)}

\* C1: in every student detail of the returned object, needsPayment is true
\* exactly when the eligibility reason is 'Trial' or 'Expired'.
C1_NeedsPaymentIffTrialOrExpired ==
    Returned =>
        \A i \in 1..Len(Details) :
            Details[i].needsPayment = (Details[i].eligibility \in {"Trial", "Expired"})

C1_Witness ==
    /\ Returned
    /\ \E i, j \in 1..Len(Details) :
         /\ Details[i].eligibility = "Trial" /\ Details[i].needsPayment
         /\ Details[j].eligibility = "Paid - Monthly" /\ ~Details[j].needsPayment

\* the payment_students rows of student s that point to a succeeded payment of
\* the requested family
CountedLinks(s) ==
    {l \in dbLinks : /\ l[1] = s
                     /\ dbPayments[l[2]].family_id = familyId
                     /\ dbPayments[l[2]].status = "succeeded"}

\* C2: pastPaymentCount of a student is the number of payment_students links of
\* that student to succeeded payments of the given family; other links are not
\* counted, and without a succeeded payment the links read is skipped and every
\* count is 0.
C2_PastPaymentCountIsSucceededLinks ==
    Returned =>
        /\ \A i \in 1..Len(Details) :
              Details[i].pastPaymentCount = Cardinality(CountedLinks(Details[i].studentId))
        /\ (exitCause = "completed"
              /\ ~(\E p \in PaymentIds : /\ dbPayments[p].family_id = familyId
                                         /\ dbPayments[p].status = "succeeded"))
           => /\ "links" \notin ReadsInLog
              /\ \A i \in 1..Len(Details) : Details[i].pastPaymentCount = 0

C2_Witness ==
    /\ Returned
    /\ \E i \in 1..Len(Details) :
         /\ Details[i].pastPaymentCount >= 1
         /\ \E l \in dbLinks : l[1] = Details[i].studentId /\ l \notin CountedLinks(l[1])

\* C3 (as stated): whenever any read failed, the returned object carries an
\* error and no student details; a result without an error saw no failed read.
C3_AllOrNothingForEveryRead ==
    Returned =>
        /\ (failedReads # {} => result.error # NoError /\ Details = <<>>)
        /\ (result.error = NoError => failedReads = {})

\* C3 (amended): a failed family, students, payments or links read gives an error
\* and no student details; a failed individual-sessions read alone gives no error
\* but zero session totals in every detail, and a failed discount read gives no
\* error but hasAvailableDiscounts false.
C3_AllOrNothingForCriticalReads ==
    Returned =>
        /\ (failedReads \cap CriticalReads # {} => result.error # NoError /\ Details = <<>>)
        /\ (result.error = NoError => failedReads \subseteq {"sessions", "discounts"})
        /\ (result.error = NoError /\ "sessions" \in failedReads
              => \A i \in 1..Len(Details) : Details[i].individualSessions = EmptySessions)
        /\ (result.error = NoError /\ "discounts" \in failedReads
              => ~result.hasAvailableDiscounts)

C3_Witness ==
    /\ Returned
    /\ failedReads = {"sessions", "discounts"}
    /\ result.error = NoError
    /\ Len(Details) = Len(students)
    /\ Len(Details) >= 1

\* C4: the call always ends with a returned object; after a failed family,
\* students, payments or links read, for a family without students, or after
\* any exception, that object has the given familyId, a non-empty error, no
\* student details and hasAvailableDiscounts false.
C4_ErrorObjectInsteadOfThrow ==
    Returned =>
        /\ exitCause \in EarlyExits \cup {"thrown", "completed"}
        /\ exitCause \in EarlyExits \cup {"thrown"} =>
              /\ result.familyId = familyId
              /\ result.error \notin {NoError, ""}
              /\ result.studentPaymentDetails = <<>>
              /\ result.hasAvailableDiscounts = FALSE

C4_Witness ==
    /\ Returned
    /\ exitCause = "thrown"
    /\ "eligibility" \in failedReads
    /\ Len(studentPaymentDetails) >= 1
    /\ result.studentPaymentDetails = <<>>

StepRank(r) ==
    CASE r = "family" -> 1
      [] r = "students" -> 2
      [] r = "payments" -> 3
      [] r = "links" -> 4
      [] r = "sessions" -> 5
      [] r = "eligibility" -> 6
      [] r = "discounts" -> 7

IsEligibilityEntry(e) == e.read = "eligibility"
EligibilityLog == SelectSeq(readLog, IsEligibilityEntry)
LastRead == readLog[Len(readLog)].read

\* C5: reads are issued in the order family, students, succeeded payments,
\* payment-student links, individual sessions, one eligibility check per
\* student, discount codes; a failed family, students, payments or links read,
\* or a family without students, ends the call with no later read issued.
C5_ReadOrderAndEarlyReturn ==
    /\ \A i, j \in 1..Len(readLog) :
          i < j => \/ StepRank(readLog[i].read) < StepRank(readLog[j].read)
                   \/ readLog[i].read = "eligibility" /\ readLog[j].read = "eligibility"
    /\ \A k \in 1..Len(EligibilityLog) : EligibilityLog[k].student = students[k]
    /\ \A r \in failedReads \cap CriticalReads : Returned /\ LastRead = r
    /\ exitCause = "noStudents" => Returned /\ LastRead = "students"
    /\ exitCause = "completed" =>
          /\ {"family", "students", "payments", "sessions", "discounts"} \subseteq ReadsInLog
          /\ Len(EligibilityLog) = Len(students)
          /\ ("links" \in ReadsInLog) = (successfulPaymentIds # {})

C5_Witness ==
    /\ exitCause = "completed"
    /\ Len(readLog) = 7 + (Len(students) - 1)
    /\ Len(students) >= 2
    /\ "links" \in ReadsInLog

(***************************************************************************)
(* Properties of the admin edit actions (checked under SpecAdmin)          *)
(***************************************************************************)
Responded == phase = "responded"
RouteTable == IF route = "student" THEN dbStudents ELSE dbFamilies

\* C6: an admin student / family edit for an id that is in no row returns an
\* error outcome (neither the success JSON nor the redirect) and creates or
\* changes no row.
C6_UnknownIdIsRejected ==
    (Responded /\ route \in {"student", "family"} /\ req.id \notin RowIds) =>
        /\ resp.kind \notin {"success", "redirect"}
        /\ RouteTable = rowsBefore

\* the request got as far as the field validation
ReachedValidation ==
    /\ Responded
    /\ req.id # Missing
    /\ route = "student" => req.intent = "edit"

C8_Required ==
    IF route = "student"
    THEN {"first_name", "last_name", "gender", "birth_date", "t_shirt_size", "school"}
    ELSE {"name", "email", "address", "city", "province", "postal_code", "primary_phone"}

C8_MissingRequired == {f \in C8_Required : req.form[f] \in {Absent, ""}}

\* C8: an edit that leaves required fields absent or empty is answered with
\* status 400 and a fieldErrors entry for exactly those fields, before any
\* update is issued; absent optional fields never cause a rejection.
C8_MissingRequiredFieldsRejected ==
    (ReachedValidation /\ route \in {"student", "family"}) =>
        /\ C8_MissingRequired # {} =>
              /\ resp.status = 400
              /\ resp.fieldErrors = C8_MissingRequired
              /\ ~resp.updateIssued
              /\ RouteTable = rowsBefore
        /\ C8_MissingRequired = {} =>
              /\ resp.status # 400
              /\ resp.fieldErrors = {}

C8_Witness ==
    /\ ReachedValidation
    /\ route = "student"
    /\ Cardinality(C8_MissingRequired) = 2
    /\ resp.fieldErrors = C8_MissingRequired
    /\ \E f \in C8_MissingRequired : req.form[f] = ""
    /\ req.form["cell_phone"] = Absent

(***************************************************************************)
(* Properties of the program service (checked under SpecProgram)           *)
(***************************************************************************)
\* C7: updateProgram for an id that matches no program throws 'Failed to update
\* program' and leaves the programs table as it was; getProgramById for such an
\* id returns null, and throws only for an error other than PGRST116.
C7_UnknownProgramId ==
    (Responded /\ route = "program") =>
        /\ (req.intent = "updateProgram" /\ req.id \notin RowIds) =>
              /\ resp.kind = "thrown"
              /\ resp.message = "Failed to update program"
              /\ dbPrograms = rowsBefore
        /\ (req.intent = "getProgramById" /\ req.id \notin RowIds) =>
              \/ resp.kind = "null" /\ resp.code = "PGRST116"
              \/ resp.kind = "thrown" /\ resp.code = "other"
        /\ (req.intent = "getProgramById" /\ resp.kind = "thrown") =>
              resp.code \notin {"none", "PGRST116"}

C7_Witness ==
    /\ Responded
    /\ route = "program"
    /\ req.intent = "getProgramById"
    /\ req.id = UnknownId
    /\ resp.kind = "null"
    /\ \E r \in RowIds : dbPrograms[r].name = "new"

(***************************************************************************)
(* Properties of the family account action (checked under SpecAccount)     *)
(***************************************************************************)
C9_Filled(form, F) == \A f \in F : form[f] \notin {Absent, ""}
C9_FilledTrimmed(form, F) == \A f \in F : form[f] \notin {Absent, "", " "}

\* the submitted form satisfies the schema of its own intent
C9_SatisfiesSchemaOfIntent ==
    LET form == req.form IN
    \/ /\ form["intent"] = "updateFamily"
       /\ C9_Filled(form, {"name", "address", "city", "province", "postal_code", "primary_phone"})
       /\ form["email"] = GoodEmail
    \/ /\ form["intent"] = "updateGuardian"
       /\ form["guardianId"] \in {"g1", "g2", "g3"}
       /\ C9_FilledTrimmed(form, {"first_name", "last_name", "relationship", "home_phone", "cell_phone"})
       /\ form["email"] = GoodEmail
    \/ /\ form["intent"] = "updatePreferences"
       /\ LET cur == form["currentPassword"]
              new == form["newPassword"]
              conf == form["confirmPassword"]
          IN  /\ (new \notin {Absent, ""} \/ conf \notin {Absent, ""}) => cur \notin {Absent, ""}
              /\ new = conf
              /\ new \notin {Absent, ""} => new = "Strong1pass"

\* C9: a form that does not satisfy the schema of its intent (or has an unknown
\* intent) is answered with status 400 and status 'error', without reading the
\* user and without any families, guardians or auth update.
C9_InvalidFormWritesNothing ==
    (Responded /\ route = "account" /\ ~C9_SatisfiesSchemaOfIntent) =>
        /\ resp.status = 400
        /\ resp.kind = "error"
        /\ ~resp.userRead
        /\ ~resp.updateIssued
        /\ AccountTables = rowsBefore

C9_Witness ==
    /\ Responded
    /\ route = "account"
    /\ req.intent = "updateFamily"
    /\ req.form["email"] = "bad"
    /\ resp.status = 400
    /\ AccountTables = rowsBefore
    /\ dbGuardians["g1"].first_name = "good"

\* the keys the form carries whose value violates the schema of the form's intent
C10_ViolatingFields ==
    LET form == req.form IN
    IF form["intent"] = "updateFamily"
    THEN {f \in {"name", "address", "city", "province", "postal_code", "primary_phone"} : form[f] = ""}
         \cup {f \in {"email"} : form[f] \notin {Absent, GoodEmail}}
    ELSE IF form["intent"] = "updateGuardian"
    THEN {f \in {"first_name", "last_name", "relationship", "home_phone", "cell_phone"} :
             form[f] \in {"", " "}}
         \cup {f \in {"email"} : form[f] \notin {Absent, GoodEmail}}
         \cup {f \in {"guardianId"} : form[f] \notin {Absent, "g1", "g2", "g3"}}
    ELSE IF form["intent"] = "updatePreferences"
    THEN LET cur == form["currentPassword"]
             new == form["newPassword"]
             conf == form["confirmPassword"]
         IN  {f \in {"currentPassword"} :
                 (new \notin {Absent, ""} \/ conf \notin {Absent, ""}) /\ cur \in {Absent, ""}}
             \cup {f \in {"confirmPassword"} : new # conf}
             \cup {f \in {"newPassword"} : new \notin {Absent, "", "Strong1pass"}}
    ELSE {}

\* C10: for every field of the submitted form that violates its intent's
\* schema, the errors list of the 400 response contains an issue whose path
\* names that field.
C10_EveryViolatingFieldIsNamed ==
    (Responded /\ route = "account" /\ resp.status = 400) =>
        \A f \in C10_ViolatingFields : \E e \in resp.errors : e.path = f

\* the same, for forms that carry every required key of their intent
C10_NamedWhenNoKeyIsMissing ==
    (Responded /\ route = "account" /\ resp.status = 400
       /\ req.intent \in {"updateFamily", "updateGuardian"}
       /\ \A f \in RequiredKeys(req.intent) : req.form[f] # Absent) =>
        \A f \in C10_ViolatingFields : \E e \in resp.errors : e.path = f

(***************************************************************************)
(* SpecRepeat: the same update applied twice in a row (updateProgram with  *)
(* the same id and fields, the admin family edit and the admin student     *)
(* edit with the same form); the clock may advance in between.             *)
(***************************************************************************)
\* the table the route's update statement writes
EditedTable ==
    IF route = "student" THEN dbStudents
    ELSE IF route = "family" THEN dbFamilies
    ELSE dbPrograms

\* the handler reported that its update statement went through
UpdateApplied(r) == r.kind \in {"success", "redirect", "returned"}

InitRepeat ==
    /\ route \in {"student", "family", "program"}
    /\ AdminStart
    /\ EligIdle
    /\ ExtIdle

\* the first submission
SubmitFirst ==
    /\ prev = NoPrev
    /\ \/ ReceiveStudentRequest
       \/ ReceiveFamilyRequest
       \/ CallProgramService /\ req'.intent = "updateProgram"
    /\ UNCHANGED prev

\* the first response is delivered; the caller keeps what it sent
DeliverFirst ==
    /\ phase = "responded"
    /\ prev = NoPrev
    /\ UpdateApplied(resp)
    /\ prev' = [req |-> req, rows |-> EditedTable, kind |-> resp.kind, again |-> FALSE]
    /\ phase' = "idle"
    /\ req' = NoReq
    /\ rowsBefore' = <<>>
    /\ resp' = NoResp
    /\ UNCHANGED <<route, now, dbStudents, dbFamilies, dbPrograms, acctTables>>

\* the same request is sent again
Resubmit ==
    /\ phase = "idle"
    /\ prev # NoPrev
    /\ ~prev.again
    /\ req' = prev.req
    /\ rowsBefore' = EditedTable
    /\ phase' = "pending"
    /\ resp' = NoResp
    /\ prev' = [prev EXCEPT !.again = TRUE]
    /\ UNCHANGED <<route, now, dbStudents, dbFamilies, dbPrograms, acctTables>>

NextRepeat ==
    \/ Tick /\ UNCHANGED <<eligVars, extVars>>
    \/ SubmitFirst /\ UNCHANGED <<eligVars, exceptPrev>>
    \/ AdminStudentAction /\ UNCHANGED <<eligVars, extVars>>
    \/ AdminFamilyAction /\ UNCHANGED <<eligVars, extVars>>
    \/ UpdateProgram /\ UNCHANGED <<eligVars, extVars>>
    \/ DeliverFirst /\ UNCHANGED <<eligVars, exceptPrev>>
    \/ Resubmit /\ UNCHANGED <<eligVars, exceptPrev>>

SpecRepeat == InitRepeat /\ [][NextRepeat]_vars

(***************************************************************************)
(* Properties of a repeated update (checked under SpecRepeat)              *)
(***************************************************************************)
\* the second application of the same update has been answered
SecondAnswered == phase = "responded" /\ prev.again

\* C11 (as stated): applying the same update twice in a row leaves the stored
\* record after the second application identical to the record after the first.
C11_RepeatedUpdateLeavesRecordUnchanged ==
    SecondAnswered => EditedTable = prev.rows

\* C11 (amended): after the second application every column of the stored
\* record except updated_at is as the first application left it; updated_at
\* carries the time of the second application when that one went through; the
\* student record, which has no updated_at, is identical.
C11_RepeatedUpdateChangesOnlyUpdatedAt ==
    SecondAnswered =>
        /\ \A r \in DOMAIN EditedTable : \A f \in DOMAIN EditedTable[r] \ {"updated_at"} :
              EditedTable[r][f] = prev.rows[r][f]
        /\ route = "student" => EditedTable = prev.rows
        /\ (route # "student" /\ UpdateApplied(resp) /\ req.id \in RowIds) =>
              EditedTable[req.id]["updated_at"] = now
        /\ ~UpdateApplied(resp) => EditedTable = prev.rows

\* both applications went through, the first one changed the record, and the
\* clock advanced in between
C11_Witness ==
    /\ SecondAnswered
    /\ UpdateApplied(resp)
    /\ req.id \in RowIds
    /\ route = "family"
    /\ prev.rows[req.id]["name"] # "old"
    /\ dbFamilies[req.id]["updated_at"] > prev.rows[req.id]["updated_at"]

(***************************************************************************)
(* SpecUpdates: every handler that issues an update statement (the admin   *)
(* edit actions, the program service, the account action), each on its own *)
(* route.                                                                  *)
(***************************************************************************)
InitUpdates ==
    /\ route \in {"student", "family", "program", "account"}
    /\ AdminStart
    /\ EligIdle
    /\ ExtIdle

NextUpdates ==
    \/ NextAdmin
    \/ NextProgram
    \/ NextAccount

SpecUpdates == InitUpdates /\ [][NextUpdates]_vars

\* C12: an update touches only the record with the given primary id:
\* updateProgram, the admin student edit and the admin family edit leave every
\* row with another id unchanged, and the account action's updateFamily changes
\* only the family of the signed-in user's profile (and no guardian or auth
\* record), whatever family-identifying keys the form carries.
C12_UpdateTouchesOnlyItsRecord ==
    Responded =>
        /\ route \in {"student", "family", "program"} =>
              \A r \in DOMAIN EditedTable : r # req.id => EditedTable[r] = rowsBefore[r]
        /\ (route = "account" /\ req.intent = "updateFamily") =>
              /\ \A r \in DOMAIN dbFamilies : r # UserFamilyId => dbFamilies[r] = rowsBefore[1][r]
              /\ dbGuardians = rowsBefore[2]
              /\ authUser = rowsBefore[3]

\* an accepted updateFamily whose form names another family changed the family
\* of the user's profile
C12_Witness ==
    /\ Responded
    /\ route = "account"
    /\ req.form \in FormsNamingAnotherFamily
    /\ resp.kind = "success"
    /\ dbFamilies[UserFamilyId] # rowsBefore[1][UserFamilyId]

(***************************************************************************)
(* Properties of the admin student detail loader (checked under SpecAdmin) *)
(***************************************************************************)
LoaderAnswered == phase = "responded" /\ route = "student" /\ req.intent = "load"

\* C13: the loader maps each failure to a status code: a missing studentId
\* gives 400; missing Supabase environment variables give 500 before any query
\* is issued; a student query that errors or yields no row gives 404; a failed
\* belt-award query does not fail the loader, which returns the student with
\* currentBeltRank null.
C13_LoaderStatusCodes ==
    LoaderAnswered =>
        IF req.id = Missing
        THEN resp.kind = "thrown" /\ resp.status = 400 /\ resp.queries = 0
        ELSE IF ~req.form.env
        THEN resp.kind = "thrown" /\ resp.status = 500 /\ resp.queries = 0
        ELSE IF req.form.studentRead = "error" \/ req.id \notin RowIds
        THEN resp.kind = "thrown" /\ resp.status = 404
        ELSE /\ resp.kind = "json"
             /\ resp.status = 200
             /\ resp.student = dbStudents[req.id]
             /\ req.form.beltRead = "error" => resp.currentBeltRank = Null
             /\ dbStudents = rowsBefore

\* the belt-award query failed for an existing, edited student and the loader
\* answered with the student
C13_Witness ==
    /\ LoaderAnswered
    /\ req.id \in RowIds
    /\ req.form.beltRead = "error"
    /\ resp.status = 200
    /\ resp.currentBeltRank = Null
    /\ dbStudents[req.id]["first_name"] # "old"

(***************************************************************************)
(* SpecNotify: one browser page and the NotificationService singleton      *)
(***************************************************************************)
InitNotify ==
    /\ page \in [window : BOOLEAN, notification : BOOLEAN, permission : Permissions]
    /\ page.notification => page.window
    /\ instance = NoInstance
    /\ constructed = 0
    /\ pushService = PushIdle
    /\ returned = {}
    /\ calls = 0
    /\ prev = NoPrev
    /\ ReadsIdle
    /\ session = SignedIn
    /\ ClientIdle
    /\ route = "none"
    /\ AdminStart
    /\ EligIdle

\* NotificationService.getInstance(), the constructor included: the call of
\* initializePushNotifications runs up to its first await
GetInstance ==
    /\ calls < MaxCalls
    /\ calls' = calls + 1
    /\ IF NeedsInstance(instance)
       THEN /\ instance' = NewInstance(constructed + 1, page)
            /\ constructed' = constructed + 1
            /\ pushService' =
                  IF page.window
                  THEN [pushService EXCEPT !.initialized = @ + 1, !.pc = "initializing"]
                  ELSE pushService
       ELSE UNCHANGED <<instance, constructed, pushService>>
    /\ returned' = returned \cup {instance'.id}
    /\ UNCHANGED page

\* `await pushNotificationService.initialize()` settles: setupMessageListener
\* runs after a fulfilment, the catch block after a rejection
InitializeSettles ==
    /\ pushService.pc = "initializing"
    /\ \E outcome \in {"ok", "throw"} :
          pushService' =
              IF outcome = "ok"
              THEN [pushService EXCEPT !.listeners = @ + 1, !.pc = "listening"]
              ELSE [pushService EXCEPT !.pc = "failed"]
    /\ UNCHANGED <<page, instance, constructed, returned, calls>>

\* the user changes the site's notification permission in the browser
PermissionChanges ==
    /\ page.notification
    /\ \E p \in Permissions \ {page.permission} : page' = [page EXCEPT !.permission = p]
    /\ UNCHANGED <<instance, constructed, pushService, returned, calls>>

NextNotify ==
    \/ GetInstance /\ UNCHANGED <<eligVars, adminVars, exceptNotify>>
    \/ InitializeSettles /\ UNCHANGED <<eligVars, adminVars, exceptNotify>>
    \/ PermissionChanges /\ UNCHANGED <<eligVars, adminVars, exceptNotify>>

SpecNotify == InitNotify /\ [][NextNotify]_vars

\* C14: the notification service is a singleton: every getInstance call returns
\* the same instance, at most one instance is constructed, and push-notification
\* initialisation (initialize, then setupMessageListener) is started at most
\* once per page.
C14_NotificationServiceIsSingleton ==
    /\ Cardinality(returned) <= 1
    /\ constructed <= 1
    /\ calls > 0 => (constructed = 1 /\ returned = {instance.id})
    /\ pushService.initialized <= 1
    /\ pushService.listeners <= pushService.initialized
    /\ pushService.initialized = 1 => page.window

\* getInstance was called several times and the listener is set up
C14_Witness ==
    /\ calls = MaxCalls
    /\ constructed = 1
    /\ pushService.initialized = 1
    /\ pushService.listeners = 1

(***************************************************************************)
(* SpecReads: the read functions of the program service.  A behaviour      *)
(* calls getProgramStats (route "stats") or the eligibility functions      *)
(* (route "eligibility") on a database that does not change meanwhile.     *)
(***************************************************************************)
InitStats ==
    /\ route = "stats"
    /\ dbPrograms \in ActivityTables(InitialProgramRow)
    /\ dbClasses \in ActivityTables(ClassRow)
    /\ rpc = [r \in RowIds |-> "true"]

\* getProgramStats() is called: the three reads are issued together
CallGetProgramStats ==
    /\ route = "stats"
    /\ phase = "idle"
    /\ req' = [id |-> Missing, intent |-> "getProgramStats", form |-> <<>>]
    /\ rowsBefore' = dbPrograms
    /\ phase' = "pending"
    /\ resp' = NoResp
    /\ reads' = [r \in StatsReads |-> "pending"]
    /\ settled' = <<>>
    /\ UNCHANGED <<route, now, dbStudents, dbFamilies, dbPrograms, acctTables, dbClasses, rpc>>

\* one of the reads in flight settles, with data or with an error object
SettleRead ==
    /\ phase = "pending"
    /\ req.intent = "getProgramStats"
    /\ \E r \in StatsReads, outcome \in {"ok", "error"} :
          /\ reads[r] = "pending"
          /\ reads' = [reads EXCEPT ![r] = outcome]
          /\ settled' = Append(settled, r)
    /\ UNCHANGED <<route, now, dbStudents, dbFamilies, dbPrograms, acctTables, dbClasses, rpc,
                   phase, req, rowsBefore, resp>>

\* getProgramStats resumes once all three reads have settled
GetProgramStats ==
    /\ phase = "pending"
    /\ req.intent = "getProgramStats"
    /\ \A r \in StatsReads : reads[r] # "pending"
    /\ phase' = "responded"
    /\ resp' = StatsResult(reads, dbPrograms, dbClasses)
    /\ UNCHANGED <<route, now, dbStudents, dbFamilies, dbPrograms, acctTables, readVars,
                   req, rowsBefore>>

InitEligibility ==
    /\ route = "eligibility"
    /\ dbPrograms \in NamedTables
    /\ dbClasses = [r \in RowIds |-> ClassRow]
    /\ rpc \in [RowIds -> RpcOutcomes]

\* a caller invokes getProgramsForStudent(studentId) or
\* checkProgramEligibility(programId, studentId)
CallEligibility ==
    /\ route = "eligibility"
    /\ phase = "idle"
    /\ \/ req' = [id |-> Missing, intent |-> "getProgramsForStudent", form |-> <<>>]
       \/ \E id \in RowIds :
             req' = [id |-> id, intent |-> "checkProgramEligibility", form |-> <<>>]
    /\ rowsBefore' = dbPrograms
    /\ phase' = "pending"
    /\ resp' = NoResp
    /\ UNCHANGED <<route, now, dbStudents, dbFamilies, dbPrograms, acctTables, readVars>>

\* checkProgramEligibility(programId, studentId)
CheckEligibilityCall ==
    /\ phase = "pending"
    /\ req.intent = "checkProgramEligibility"
    /\ phase' = "responded"
    /\ LET check == CheckProgramEligibility(rpc[req.id])
       IN  resp' = EligibilityResponse("returned", "", <<>>, <<>>, check.eligible, check.reasons)
    /\ UNCHANGED <<route, now, dbStudents, dbFamilies, dbPrograms, acctTables, readVars,
                   req, rowsBefore>>

\* getProgramsForStudent(studentId)
GetProgramsForStudent ==
    /\ phase = "pending"
    /\ req.intent = "getProgramsForStudent"
    /\ phase' = "responded"
    /\ \E dbOutcome \in {"ok", "error"} :
          IF dbOutcome = "error"
          THEN resp' = EligibilityResponse("thrown", "Failed to fetch programs", <<>>, <<>>,
                                           FALSE, <<>>)
          ELSE \E allPrograms \in GetPrograms(dbPrograms, "true") :
                  resp' = EligibilityResponse("returned", "", EligiblePrograms(allPrograms, rpc),
                                              allPrograms, FALSE, <<>>)
    /\ UNCHANGED <<route, now, dbStudents, dbFamilies, dbPrograms, acctTables, readVars,
                   req, rowsBefore>>

InitReads ==
    /\ InitStats \/ InitEligibility
    /\ now = 0
    /\ dbStudents = [r \in RowIds |-> [f \in StudentFields |-> "old"]]
    /\ dbFamilies = [r \in RowIds |-> [f \in FamilyFields |-> IF f = "updated_at" THEN 0 ELSE "old"]]
    /\ dbGuardians = [g \in GuardianIds |-> InitialGuardianRow(g)]
    /\ authUser = [password |-> "old", receive_marketing_emails |-> "true"]
    /\ phase = "idle"
    /\ req = NoReq
    /\ rowsBefore = <<>>
    /\ resp = NoResp
    /\ reads = NoReads
    /\ settled = <<>>
    /\ prev = NoPrev
    /\ session = SignedIn
    /\ NotifyIdle
    /\ ClientIdle
    /\ EligIdle

NextReads ==
    \/ CallGetProgramStats /\ UNCHANGED <<eligVars, exceptReads>>
    \/ SettleRead /\ UNCHANGED <<eligVars, exceptReads>>
    \/ GetProgramStats /\ UNCHANGED <<eligVars, exceptReads>>
    \/ CallEligibility /\ UNCHANGED <<eligVars, extVars>>
    \/ CheckEligibilityCall /\ UNCHANGED <<eligVars, extVars>>
    \/ GetProgramsForStudent /\ UNCHANGED <<eligVars, extVars>>
    \/ Finish /\ UNCHANGED <<eligVars, extVars>>

SpecReads == InitReads /\ [][NextReads]_vars

(***************************************************************************)
(* Properties of the read functions (checked under SpecReads)              *)
(***************************************************************************)
StatsAnswered == phase = "responded" /\ req.intent = "getProgramStats"

\* C15: getProgramStats issues its three reads together and its outcome does
\* not depend on the order in which they settle: it throws if any of the three
\* (the enrollments read included) reports an error, and otherwise returns
\* total_* equal to the number of rows read and active_* equal to the number of
\* those rows with is_active true, so active never exceeds total.
C15_StatsIndependentOfCompletionOrder ==
    /\ (phase = "pending" /\ req.intent = "getProgramStats") =>
          /\ \A r \in StatsReads : reads[r] # "none"
          /\ resp = NoResp
    /\ StatsAnswered =>
          /\ Len(settled) = 3
          /\ IF \E r \in StatsReads : reads[r] = "error"
             THEN /\ resp.kind = "thrown"
                  /\ resp.message =
                        IF reads["programs"] = "error" THEN "Failed to fetch program stats"
                        ELSE IF reads["classes"] = "error" THEN "Failed to fetch class stats"
                        ELSE "Failed to fetch enrollment stats"
             ELSE /\ resp.kind = "returned"
                  /\ resp.total_programs = Cardinality(DOMAIN dbPrograms)
                  /\ resp.total_classes = Cardinality(DOMAIN dbClasses)
                  /\ resp.active_programs =
                        Cardinality({r \in DOMAIN dbPrograms : dbPrograms[r]["is_active"] = "true"})
                  /\ resp.active_classes =
                        Cardinality({r \in DOMAIN dbClasses : dbClasses[r]["is_active"] = "true"})
                  /\ resp.active_programs <= resp.total_programs
                  /\ resp.active_classes <= resp.total_classes

\* the reads settled in the reverse of the order they were issued in, and the
\* counts tell active rows from inactive ones
C15_Witness ==
    /\ StatsAnswered
    /\ settled = <<"enrollments", "classes", "programs">>
    /\ resp.kind = "returned"
    /\ resp.active_programs = 1
    /\ resp.total_programs = 2
    /\ resp.active_classes < resp.total_classes

(***************************************************************************)
(* SpecGuardian: the account action's updateGuardian with the ownership    *)
(* check and the update as the two separate statements they are, on a      *)
(* guardians table that other requests write in between.                   *)
(***************************************************************************)
InitGuardian ==
    /\ route = "guardian"
    /\ AdminStart
    /\ EligIdle
    /\ prev = NoPrev
    /\ NotifyIdle
    /\ ReadsIdle
    /\ session \in Sessions
    /\ ClientIdle

\* guardian forms in which at most the guardianId is ill-formed, left out or
\* names a guardian of another family or none
GuardianIdForms ==
    {f \in FormsOf("updateGuardian", "updateGuardian") :
        \A k \in RequiredKeys("updateGuardian") \ {"guardianId"} :
            f[k] = GoodValue(FieldKind("updateGuardian", k))}

\* a POST of a guardian form to /family/account arrives
ReceiveGuardianRequest ==
    /\ route = "guardian"
    /\ phase = "idle"
    /\ \E form \in GuardianIdForms :
          req' = [id |-> Missing, intent |-> "updateGuardian", form |-> form]
    /\ rowsBefore' = dbGuardians
    /\ phase' = "pending"
    /\ resp' = NoResp
    /\ UNCHANGED <<route, now, dbStudents, dbFamilies, dbPrograms, acctTables, session>>

\* action() up to the ownership check: safeParse, auth.getUser, the profile
\* read and the guardians read; rowsBefore keeps the table the check saw
VerifyGuardian ==
    /\ route = "guardian"
    /\ phase = "pending"
    /\ rowsBefore' = dbGuardians
    /\ LET parsed == SafeParse(req.form)
           guardianId == req.form["guardianId"]
       IN
       IF ~parsed.success
       THEN /\ resp' = AccountResponse("error", 400, parsed.issues, FALSE, FALSE, "Invalid form data.")
            /\ phase' = "responded"
       ELSE IF session.user = "none"
       THEN /\ resp' = AccountResponse("error", 401, {}, TRUE, FALSE, "User not authenticated.")
            /\ phase' = "responded"
       ELSE \E profileOutcome \in {"ok", "error"}, checkOutcome \in {"ok", "error"} :
          IF profileOutcome = "error" \/ session.family = Missing
          THEN /\ resp' = AccountResponse("error", 404, {}, TRUE, FALSE,
                                          "Could not find associated family.")
               /\ phase' = "responded"
          ELSE IF checkOutcome = "error" \/ ~OwnsGuardian(dbGuardians, guardianId, session.family)
          THEN /\ resp' = AccountResponse("error", 404, {}, TRUE, FALSE,
                                          "Guardian not found or access denied.")
               /\ phase' = "responded"
          ELSE /\ resp' = NoResp
               /\ phase' = "verified"
    /\ UNCHANGED <<route, now, dbStudents, dbFamilies, dbPrograms, acctTables, req, session>>

\* action() from the update statement on: guardians .update(guardianUpdateData)
\* .eq('id', guardianId), then the success answer or the catch block
WriteGuardian ==
    /\ route = "guardian"
    /\ phase = "verified"
    /\ phase' = "responded"
    /\ LET guardianId == req.form["guardianId"]
           data == ParsedData("updateGuardian", req.form)
       IN  \E dbOutcome \in {"ok", "error"} :
              IF dbOutcome = "error"
              THEN /\ resp' = AccountResponse("error", 500, {}, TRUE, TRUE,
                                              "Failed to update information")
                   /\ UNCHANGED dbGuardians
              ELSE /\ dbGuardians' = UpdateById(dbGuardians, guardianId, data)
                   /\ resp' = AccountResponse("success", 200, {}, TRUE, TRUE,
                                              "Guardian information updated successfully.")
    /\ UNCHANGED <<route, now, dbStudents, dbFamilies, dbPrograms, authUser, req, rowsBefore, session>>

\* another request moves a guardian to another family
ReassignGuardian ==
    /\ route = "guardian"
    /\ \E g \in GuardianIds, f \in {UserFamilyId, UserFamilyId + 1} :
          /\ dbGuardians[g]["family_id"] # f
          /\ dbGuardians' = [dbGuardians EXCEPT ![g]["family_id"] = f]
    /\ UNCHANGED <<route, now, dbStudents, dbFamilies, dbPrograms, authUser, phase, req,
                   rowsBefore, resp, session>>

NextGuardian ==
    \/ ReceiveGuardianRequest /\ UNCHANGED <<eligVars, exceptSession>>
    \/ VerifyGuardian /\ UNCHANGED <<eligVars, exceptSession>>
    \/ WriteGuardian /\ UNCHANGED <<eligVars, exceptSession>>
    \/ ReassignGuardian /\ UNCHANGED <<eligVars, exceptSession>>
    \/ Finish /\ UNCHANGED <<eligVars, extVars>>

SpecGuardian == InitGuardian /\ [][NextGuardian]_vars

(***************************************************************************)
(* Properties of updateGuardian (checked under SpecGuardian)               *)
(***************************************************************************)
\* an accepted guardian form has been answered
GuardianAnswered ==
    /\ route = "guardian"
    /\ phase = "responded"
    /\ SafeParse(req.form).success

\* the guardian the form names was in the family of the user's profile when the
\* ownership check ran
C16_InFamily ==
    /\ req.form["guardianId"] \in DOMAIN rowsBefore
    /\ rowsBefore[req.form["guardianId"]]["family_id"] = session.family

\* C16: updateGuardian writes a guardian row only after verifying ownership:
\* with no authenticated user it answers 401, with a profile without family
\* 404, and when no guardian with the submitted id is in the family of the
\* user's profile 404 'Guardian not found or access denied.'; in all three
\* cases no guardians update is issued.
C16_GuardianWriteOnlyAfterOwnershipCheck ==
    /\ GuardianAnswered =>
          IF session.user = "none"
          THEN resp.status = 401 /\ ~resp.updateIssued
          ELSE IF session.family = Missing
          THEN /\ resp.status = 404
               /\ resp.message = "Could not find associated family."
               /\ ~resp.updateIssued
          ELSE IF ~C16_InFamily
          THEN /\ resp.status = 404
               /\ resp.message \in {"Guardian not found or access denied.",
                                    "Could not find associated family."}
               /\ ~resp.updateIssued
          ELSE resp.updateIssued =>
                  /\ resp.status \in {200, 500}
                  /\ C16_InFamily
    /\ (route = "guardian" /\ phase = "verified") =>
          /\ session.user # "none"
          /\ C16_InFamily

\* the form names a guardian that exists in another family and is turned away
C16_Witness ==
    /\ GuardianAnswered
    /\ session = SignedIn
    /\ req.form["guardianId"] \in DOMAIN rowsBefore
    /\ ~C16_InFamily
    /\ resp.status = 404
    /\ resp.message = "Guardian not found or access denied."
    /\ dbGuardians = rowsBefore

\* C17: under interleaving with other requests, every guardian row written by
\* updateGuardian belongs to the requesting user's family at the moment of the
\* write.
C17_WrittenGuardianBelongsToFamily ==
    [][(route = "guardian" /\ phase = "verified" /\ phase' = "responded"
          /\ resp'.kind = "success")
       => dbGuardians[req.form["guardianId"]]["family_id"] = session.family]_vars

(***************************************************************************)
(* Properties of updateProgram's field selection (checked under            *)
(* SpecProgram)                                                            *)
(***************************************************************************)
\* updateProgram returned the updated row
ProgramUpdated ==
    /\ route = "program"
    /\ phase = "responded"
    /\ req.intent = "updateProgram"
    /\ resp.kind = "returned"

\* C18: updateProgram writes exactly the fields of `updates` whose value is not
\* undefined, plus updated_at: a field absent from `updates` keeps its stored
\* value, a field given as null or false is written as given, and id and
\* created_at are never written.
C18_UpdateProgramWritesGivenFields ==
    ProgramUpdated =>
        /\ req.id \in RowIds
        /\ \A f \in ProgramUpdateFields :
              dbPrograms[req.id][f] =
                  IF req.form[f] = Undefined THEN rowsBefore[req.id][f] ELSE req.form[f]
        /\ dbPrograms[req.id]["updated_at"] = now
        /\ dbPrograms[req.id]["id"] = rowsBefore[req.id]["id"]
        /\ dbPrograms[req.id]["created_at"] = rowsBefore[req.id]["created_at"]

\* null and false were written as given while the name, changed by an earlier
\* update and absent from this one, was kept
C18_Witness ==
    /\ ProgramUpdated
    /\ req.form["description"] = Null
    /\ req.form["is_active"] = "false"
    /\ req.form["name"] = Undefined
    /\ req.form["id"] = "other"
    /\ rowsBefore[req.id]["name"] = "new"
    /\ rowsBefore[req.id]["description"] = "new"
    /\ dbPrograms[req.id]["description"] = Null
    /\ dbPrograms[req.id]["is_active"] = "false"
    /\ dbPrograms[req.id]["name"] = "new"

(***************************************************************************)
(* Properties of the eligibility functions (checked under SpecReads)       *)
(***************************************************************************)
ProgramsAnswered == phase = "responded" /\ req.intent = "getProgramsForStudent"
CheckAnswered == phase = "responded" /\ req.intent = "checkProgramEligibility"

\* the elements of a sequence
Range(q) == {q[i] : i \in 1..Len(q)}

\* C19: getProgramsForStudent returns exactly the programs that are active and
\* for which check_program_eligibility returns a truthy value for the student,
\* each once, in the name order getPrograms({is_active: true}) listed them in;
\* an inactive program is never returned, and a program whose check errors or
\* throws is left out rather than making the call fail.
C19_EligibleActiveProgramsInNameOrder ==
    (ProgramsAnswered /\ resp.kind = "returned") =>
        LET out == resp.programs IN
        /\ Range(out) = {r \in DOMAIN dbPrograms :
                            dbPrograms[r]["is_active"] = "true" /\ rpc[r] = "true"}
        /\ \A i \in 1..Len(out), j \in 1..Len(out) :
              i < j =>
                 /\ out[i] # out[j]
                 /\ NameRank(dbPrograms[out[i]]["name"]) <= NameRank(dbPrograms[out[j]]["name"])
                 /\ \E k \in 1..Len(resp.listed), l \in 1..Len(resp.listed) :
                       k < l /\ resp.listed[k] = out[i] /\ resp.listed[l] = out[j]
        /\ Range(resp.listed) = {r \in DOMAIN dbPrograms : dbPrograms[r]["is_active"] = "true"}

\* of two active programs, listed against their id order, the one whose check
\* threw is left out and the other is returned
C19_Witness ==
    /\ ProgramsAnswered
    /\ resp.kind = "returned"
    /\ resp.listed = <<2, 1>>
    /\ rpc[2] = "throw"
    /\ resp.programs = <<1>>

InitStudentPage ==
    /\ route = "student"
    /\ AdminStart
    /\ EligIdle
    /\ ExtIdle

\* onClick of 'Edit Student', shown in view mode
ClickEdit ==
    /\ ~effectDue
    /\ ~isEditing
    /\ isEditing' = TRUE
    /\ effectDue' = TRUE
    /\ lastEvent' = "edit"
    /\ UNCHANGED actionData

\* onClick of 'Cancel', shown in edit mode and disabled while submitting
ClickCancel ==
    /\ ~effectDue
    /\ isEditing
    /\ NavigationState # "submitting"
    /\ isEditing' = FALSE
    /\ effectDue' = TRUE
    /\ lastEvent' = "cancel"
    /\ UNCHANGED actionData

\* 'Save Changes': the form is posted with intent=edit for the page's student
SubmitEdit ==
    /\ ~effectDue
    /\ isEditing
    /\ phase = "idle"
    /\ \E form \in PageForms :
          req' = [id |-> PageStudentId, intent |-> "edit", form |-> form]
    /\ rowsBefore' = dbStudents
    /\ phase' = "pending"
    /\ resp' = NoResp
    /\ effectDue' = TRUE
    /\ lastEvent' = "submit"
    /\ UNCHANGED <<route, now, dbStudents, dbFamilies, dbPrograms, acctTables, isEditing, actionData>>

\* the action has answered: useActionData() yields the answer while the
\* loaders revalidate
ActionAnswers ==
    /\ AdminStudentAction
    /\ actionData' = resp'.kind
    /\ effectDue' = TRUE
    /\ UNCHANGED <<isEditing, lastEvent>>

\* revalidation is over: navigation.state is 'idle' again, actionData stays
NavigationSettles ==
    /\ Finish
    /\ effectDue' = TRUE
    /\ UNCHANGED <<isEditing, actionData, lastEvent>>

\* the useEffect callback, run after a render in which a dependency changed
RunEffect ==
    /\ effectDue
    /\ IF ResetsEditMode(actionData, isEditing, NavigationState)
       THEN isEditing' = FALSE /\ effectDue' = TRUE
       ELSE isEditing' = isEditing /\ effectDue' = FALSE
    /\ UNCHANGED <<actionData, lastEvent>>

NextStudentPage ==
    \/ ClickEdit /\ UNCHANGED <<eligVars, adminVars, exceptPage>>
    \/ ClickCancel /\ UNCHANGED <<eligVars, adminVars, exceptPage>>
    \/ SubmitEdit /\ UNCHANGED <<eligVars, exceptPage>>
    \/ ActionAnswers /\ UNCHANGED <<eligVars, exceptPage>>
    \/ NavigationSettles /\ UNCHANGED <<eligVars, exceptPage>>
    \/ RunEffect /\ UNCHANGED <<eligVars, adminVars, exceptPage>>

SpecStudentPage == InitStudentPage /\ [][NextStudentPage]_vars

\* the page has rendered and its effects have run
PageSettled == ~effectDue

\* C21: on the admin student detail page, 'Edit Student' enters edit mode and
\* edit mode is left only by Cancel or by a save that has just completed
\* successfully: whenever the page shows view mode, the user's last act was
\* none at all, Cancel, or a save that the action answered with success; in
\* particular after 'Edit Student' the page is and stays in edit mode, also
\* when an earlier save succeeded.
C21_EditModeLeftOnlyByCancelOrSave ==
    (PageSettled /\ ~isEditing) =>
        \/ lastEvent \in {"none", "cancel"}
        \/ lastEvent = "submit" /\ actionData = "success" /\ NavigationState = "idle"

(***************************************************************************)
(* SpecSettings: the NotificationSettings component on one page.  A        *)
(* handler works on the state values of the render in which it was         *)
(* created (its closure); the buttons are disabled while isLoading, so     *)
(* one handler runs at a time.                                             *)
(***************************************************************************)
InitSettings ==
    /\ page \in [window : {TRUE}, notification : BOOLEAN, permission : Permissions]
    /\ ~page.notification => page.permission = "default"
    /\ pushManager \in BOOLEAN
    /\ storage \in {Null, "true", "false"}
    /\ subscription \in BOOLEAN
    /\ subscription => (pushManager /\ page.notification /\ page.permission = "granted")
    /\ hidden = FALSE
    /\ settings = Mounted(page, pushManager, storage, subscription)
    /\ tasks = <<>>
    /\ last = NoLast
    /\ instance = NoInstance
    /\ constructed = 0
    /\ pushService = PushIdle
    /\ returned = {}
    /\ calls = 0
    /\ prev = NoPrev
    /\ ReadsIdle
    /\ session = SignedIn
    /\ PageIdle
    /\ route = "none"
    /\ AdminStart
    /\ EligIdle

\* a handler in flight
Handler(fn, at, closure, answer, log, failed) ==
    [fn |-> fn, pc |-> at, closure |-> closure, answer |-> answer, log |-> log,
     failed |-> failed]

\* handler h is over: its record is kept, isLoading is reset where a finally
\* block does so
Ends(h, next, resetLoading) ==
    /\ tasks' = <<>>
    /\ last' = [fn |-> h.fn, closure |-> h.closure, answer |-> h.answer,
                log |-> h.log, failed |-> h.failed]
    /\ settings' = IF resetLoading THEN [next EXCEPT !.isLoading = FALSE] ELSE next

\* the call handleSubscribeToPush() made by handler h: it returns at its
\* guard, or sets isLoading and awaits the VAPID key
CallsSubscribe(h, next) ==
    IF PassesSubscribeGuard(h.closure)
    THEN /\ tasks' = <<[h EXCEPT !.pc = "vapid"]>>
         /\ settings' = [next EXCEPT !.isLoading = TRUE]
         /\ UNCHANGED last
    ELSE Ends(h, next, h.fn = "handleRequestPermission")

\* the call handleUnsubscribeFromPush() made by handler h
CallsUnsubscribe(h, next) ==
    IF h.closure.isPushSupported
    THEN /\ tasks' = <<[h EXCEPT !.pc = "unsubscribe"]>>
         /\ settings' = [next EXCEPT !.isLoading = TRUE]
         /\ UNCHANGED last
    ELSE Ends(h, next, FALSE)

\* 'Enable Notifications' (shown while permission is 'default'):
\* handleRequestPermission up to its await
ClickEnableNotifications ==
    /\ tasks = <<>>
    /\ settings.isSupported /\ settings.permission = "default" /\ ~settings.isLoading
    /\ settings' = [settings EXCEPT !.isLoading = TRUE]
    /\ tasks' = <<Handler("handleRequestPermission", "prompt", settings, "none", <<>>, FALSE)>>
    /\ UNCHANGED <<page, storage, pushManager, subscription, hidden, last>>

\* Notification.requestPermission() settles and handleRequestPermission goes
\* on to its end or into handleSubscribeToPush
PromptSettles ==
    /\ tasks # <<>>
    /\ tasks[1].pc = "prompt"
    /\ \E a \in PromptAnswers(page.permission) :
          LET h == [tasks[1] EXCEPT !.answer = a] IN
          IF a = "throw"
          THEN /\ Ends([h EXCEPT !.failed = TRUE], settings, TRUE)
               /\ UNCHANGED page
          ELSE /\ page' = [page EXCEPT !.permission = a]
               /\ LET next == [settings EXCEPT !.permission = a]
                      shown == [h EXCEPT !.log = Append(@, "Notification")]
                  IN  IF a # "granted" THEN Ends(h, next, TRUE)
                      ELSE IF WantsPush(h.closure) THEN CallsSubscribe(shown, next)
                      ELSE Ends(shown, next, TRUE)
    /\ UNCHANGED <<storage, pushManager, subscription, hidden>>

\* 'Enable Push Notifications': handleSubscribeToPush as the click handler
ClickEnablePush ==
    /\ tasks = <<>>
    /\ settings.isPushSupported /\ settings.permission = "granted" /\ settings.userEnabled
    /\ ~settings.pushSubscribed /\ ~settings.isLoading
    /\ CallsSubscribe(Handler("handleSubscribeToPush", "start", settings, "none", <<>>, FALSE),
                      settings)
    /\ UNCHANGED <<page, storage, pushManager, subscription, hidden>>

\* handleSubscribeToPush resumes after an await: the VAPID key fetch, then
\* pushManager.subscribe, then the POST to /api/push/subscribe
SubscribeAwaitSettles ==
    /\ tasks # <<>>
    /\ tasks[1].pc \in {"vapid", "subscribe", "post"}
    /\ LET h == tasks[1] IN
       \E outcome \in {"ok", "fail"} :
          CASE h.pc = "vapid" ->
                  LET g == [h EXCEPT !.log = Append(@, "GET /api/push/vapid-key")] IN
                  /\ IF outcome = "ok"
                     THEN tasks' = <<[g EXCEPT !.pc = "subscribe"]>> /\ UNCHANGED <<settings, last>>
                     ELSE Ends([g EXCEPT !.failed = TRUE], settings, TRUE)
                  /\ UNCHANGED subscription
            [] h.pc = "subscribe" ->
                  LET g == [h EXCEPT !.log = Append(@, "pushManager.subscribe")] IN
                  IF outcome = "ok"
                  THEN /\ subscription' = TRUE
                       /\ tasks' = <<[g EXCEPT !.pc = "post"]>>
                       /\ UNCHANGED <<settings, last>>
                  ELSE /\ Ends([g EXCEPT !.failed = TRUE], settings, TRUE)
                       /\ UNCHANGED subscription
            [] h.pc = "post" ->
                  LET g == [h EXCEPT !.log = Append(@, "POST /api/push/subscribe")] IN
                  /\ IF outcome = "ok"
                     THEN Ends(g, [settings EXCEPT !.pushSubscribed = TRUE], TRUE)
                     ELSE Ends([g EXCEPT !.failed = TRUE], settings, TRUE)
                  /\ UNCHANGED subscription
    /\ UNCHANGED <<page, storage, pushManager, hidden>>

\* the switch 'Receive message notifications' (shown while permission is
\* 'granted'): handleToggleUserPreference up to its first await
ToggleUserPreference ==
    /\ tasks = <<>>
    /\ settings.isSupported /\ settings.permission = "granted" /\ ~settings.isLoading
    /\ LET enabled == ~settings.userEnabled
           next == [settings EXCEPT !.userEnabled = enabled]
           h == Handler("handleToggleUserPreference", "start", settings, "none", <<>>, FALSE)
           shown == [h EXCEPT !.log = Append(@, "Notification")]
       IN  /\ storage' = BoolString(enabled)
           /\ IF enabled /\ settings.permission = "granted"
              THEN IF settings.isPushSupported /\ ~settings.pushSubscribed
                   THEN CallsSubscribe(shown, next)
                   ELSE Ends(shown, next, FALSE)
              ELSE IF ~enabled /\ settings.pushSubscribed
                   THEN CallsUnsubscribe(h, next)
                   ELSE Ends(h, next, FALSE)
    /\ UNCHANGED <<page, pushManager, subscription, hidden>>

\* 'Disable Push': handleUnsubscribeFromPush as the click handler
ClickDisablePush ==
    /\ tasks = <<>>
    /\ settings.isPushSupported /\ settings.permission = "granted" /\ settings.userEnabled
    /\ settings.pushSubscribed /\ ~settings.isLoading
    /\ CallsUnsubscribe(Handler("handleUnsubscribeFromPush", "start", settings, "none", <<>>, FALSE),
                        settings)
    /\ UNCHANGED <<page, storage, pushManager, subscription, hidden>>

\* handleUnsubscribeFromPush resumes after an await: getSubscription and
\* subscription.unsubscribe(), then the POST to /api/push/unsubscribe
UnsubscribeAwaitSettles ==
    /\ tasks # <<>>
    /\ tasks[1].pc \in {"unsubscribe", "unpost"}
    /\ LET h == tasks[1] IN
       \E outcome \in {"ok", "fail"} :
          CASE h.pc = "unsubscribe" ->
                  LET g == [h EXCEPT !.log = Append(@, "subscription.unsubscribe")] IN
                  IF ~subscription
                  THEN /\ Ends(h, [settings EXCEPT !.pushSubscribed = FALSE], TRUE)
                       /\ UNCHANGED subscription
                  ELSE IF outcome = "ok"
                  THEN /\ subscription' = FALSE
                       /\ tasks' = <<[g EXCEPT !.pc = "unpost"]>>
                       /\ UNCHANGED <<settings, last>>
                  ELSE /\ Ends([g EXCEPT !.failed = TRUE], settings, TRUE)
                       /\ UNCHANGED subscription
            [] h.pc = "unpost" ->
                  LET g == [h EXCEPT !.log = Append(@, "POST /api/push/unsubscribe")] IN
                  /\ IF outcome = "ok"
                     THEN Ends(g, [settings EXCEPT !.pushSubscribed = FALSE], TRUE)
                     ELSE Ends([g EXCEPT !.failed = TRUE], settings, TRUE)
                  /\ UNCHANGED subscription
    /\ UNCHANGED <<page, storage, pushManager, hidden>>

exceptSettings == <<instance, constructed, pushService, returned, calls, exceptBrowser>>

NextSettings ==
    \/ ClickEnableNotifications /\ UNCHANGED <<eligVars, adminVars, exceptSettings>>
    \/ PromptSettles /\ UNCHANGED <<eligVars, adminVars, exceptSettings>>
    \/ ClickEnablePush /\ UNCHANGED <<eligVars, adminVars, exceptSettings>>
    \/ SubscribeAwaitSettles /\ UNCHANGED <<eligVars, adminVars, exceptSettings>>
    \/ ToggleUserPreference /\ UNCHANGED <<eligVars, adminVars, exceptSettings>>
    \/ ClickDisablePush /\ UNCHANGED <<eligVars, adminVars, exceptSettings>>
    \/ UnsubscribeAwaitSettles /\ UNCHANGED <<eligVars, adminVars, exceptSettings>>

SpecSettings == InitSettings /\ [][NextSettings]_vars

\* handleRequestPermission has returned after the browser granted the
\* permission asked for from 'default', with the preference enabled and push
\* supported
GrantedFromDefault ==
    /\ last.fn = "handleRequestPermission"
    /\ last.closure.permission = "default"
    /\ last.answer = "granted"
    /\ last.closure.userEnabled
    /\ last.closure.isPushSupported

\* C22: when the user clicks 'Enable Notifications' from permission 'default'
\* and the browser grants it, with the user preference enabled and push
\* supported, the handler goes on to subscribe to push (VAPID key fetch,
\* pushManager.subscribe, POST /api/push/subscribe), and pushSubscribed is
\* true when those calls succeeded.
C22_GrantedPermissionSubscribesToPush ==
    GrantedFromDefault =>
        /\ "GET /api/push/vapid-key" \in Range(last.log)
        /\ ~last.failed =>
              /\ Range(last.log) = {"Notification", "GET /api/push/vapid-key",
                                    "pushManager.subscribe", "POST /api/push/subscribe"}
              /\ settings.pushSubscribed

(***************************************************************************)
(* SpecService: the methods of the notification singleton called from a    *)
(* page, while the user changes the browser permission and the page's      *)
(* visibility.  pushNotificationService (push-notifications.client) is not *)
(* among the sources: its subscribe() and unsubscribe() are taken to set   *)
(* and clear the push manager's subscription when they succeed.            *)
(***************************************************************************)
InitService ==
    /\ page \in [window : BOOLEAN, notification : BOOLEAN, permission : Permissions]
    /\ page.notification => page.window
    /\ ~page.notification => page.permission = "default"
    /\ pushManager \in BOOLEAN
    /\ storage \in {Null, "true", "false"}
    /\ subscription \in BOOLEAN
    /\ hidden \in BOOLEAN
    /\ subscription => (pushManager /\ page.permission = "granted")
    /\ ~page.window => (~pushManager /\ storage = Null /\ ~hidden)
    /\ instance = NewInstance(1, page)
    /\ constructed = 1
    /\ pushService = [initialized |-> IF page.window THEN 1 ELSE 0,
                      listeners |-> IF page.window THEN 1 ELSE 0,
                      pc |-> IF page.window THEN "listening" ELSE "idle"]
    /\ returned = {1}
    /\ calls = 1
    /\ settings = InitialSettings
    /\ tasks = EmptyBag
    /\ last = NoLast
    /\ prev = NoPrev
    /\ ReadsIdle
    /\ session = SignedIn
    /\ PageIdle
    /\ route = "none"
    /\ AdminStart
    /\ EligIdle

\* document.hidden changes: the tab is hidden or shown
VisibilityChanges ==
    /\ page.window
    /\ hidden' = ~hidden
    /\ UNCHANGED <<page, instance, storage, pushManager, subscription, tasks, last>>

\* the user changes the site's permission in the browser settings
BrowserPermissionChanges ==
    /\ PermissionChanges
    /\ UNCHANGED <<storage, pushManager, subscription, hidden, tasks, last>>

\* getPermission()
GetPermission ==
    /\ instance' = IF instance.isSupported
                   THEN [instance EXCEPT !.permission = page.permission]
                   ELSE instance
    /\ last' = Observation("getPermission", instance'.permission, "none", {}, instance, page, storage)
    /\ UNCHANGED <<page, storage, pushManager, subscription, hidden, tasks>>

\* requestPermission() up to its await
RequestPermission ==
    /\ BagCardinality(tasks) < MaxTasks
    /\ IF ~instance.isSupported
       THEN /\ last' = Observation("requestPermission", "denied", "none", {}, instance, page, storage)
            /\ UNCHANGED tasks
       ELSE /\ tasks' = Started(tasks, ServiceTask("requestPermission", "prompt", "none",
                                                   {"prompt"}, Null))
            /\ UNCHANGED last
    /\ UNCHANGED <<page, instance, storage, pushManager, subscription, hidden>>

\* Notification.requestPermission() settles and requestPermission goes on to
\* its return, or into the call of pushNotificationService.subscribe()
RequestPermissionResumes ==
    \E t \in BagToSet(tasks) :
       /\ t.pc = "prompt"
       /\ \E a \in PromptAnswers(page.permission) :
             IF a = "throw"
             THEN /\ last' = Observation("requestPermission", "denied", a, t.made,
                                         instance, page, storage)
                  /\ tasks' = Settled(tasks, t)
                  /\ UNCHANGED <<page, instance>>
             ELSE /\ page' = [page EXCEPT !.permission = a]
                  /\ instance' = [instance EXCEPT !.permission = a]
                  /\ IF StartsSubscription(a, page, storage) /\ MaySubscribe(instance', pushManager)
                     THEN /\ tasks' = Started(Settled(tasks, t),
                                          ServiceTask("requestPermission", "subscribing", a,
                                                      t.made \cup {"push.subscribe"}, storage))
                          /\ UNCHANGED last
                     ELSE /\ last' = Observation("requestPermission", a, a, t.made,
                                                 instance', page', storage)
                          /\ tasks' = Settled(tasks, t)
    /\ UNCHANGED <<storage, pushManager, subscription, hidden>>

\* subscribeToPushNotifications() up to its await
SubscribeToPushNotifications ==
    /\ BagCardinality(tasks) < MaxTasks
    /\ IF MaySubscribe(instance, pushManager)
       THEN /\ tasks' = Started(tasks, ServiceTask("subscribeToPushNotifications", "subscribing",
                                                  "none", {"push.subscribe"}, Null))
            /\ last' = Observation("subscribeToPushNotifications", "pending", "none",
                                   {"push.subscribe"}, instance, page, storage)
       ELSE /\ last' = Observation("subscribeToPushNotifications", "false", "none", {},
                                   instance, page, storage)
            /\ UNCHANGED tasks
    /\ UNCHANGED <<page, instance, storage, pushManager, subscription, hidden>>

\* unsubscribeFromPushNotifications() up to its await
UnsubscribeFromPushNotifications ==
    /\ BagCardinality(tasks) < MaxTasks
    /\ tasks' = Started(tasks, ServiceTask("unsubscribeFromPushNotifications", "unsubscribing",
                                          "none", {"push.unsubscribe"}, Null))
    /\ last' = Observation("unsubscribeFromPushNotifications", "pending", "none",
                           {"push.unsubscribe"}, instance, page, storage)
    /\ UNCHANGED <<page, instance, storage, pushManager, subscription, hidden>>

\* pushNotificationService.subscribe() or .unsubscribe() settles with one of
\* the given outcomes, and the method awaiting it returns
PushSettles(outcomes) ==
    \E t \in BagToSet(tasks), outcome \in outcomes :
       /\ t.pc \in {"subscribing", "unsubscribing"}
       /\ subscription' = IF outcome # "ok" THEN subscription
                          ELSE t.pc = "subscribing"
       /\ last' = Observation(t.fn,
                              IF t.fn = "requestPermission" THEN t.answer
                              ELSE BoolString(outcome = "ok"),
                              t.answer, t.made, instance, page, t.preference)
       /\ tasks' = Settled(tasks, t)
       /\ UNCHANGED <<page, instance, storage, pushManager, hidden>>

\* setNotificationPreference(enabled): the subscribe or unsubscribe it starts
\* is not awaited
SetNotificationPreference ==
    /\ BagCardinality(tasks) < MaxTasks
    /\ \E enabled \in BOOLEAN :
          IF ~page.window
          THEN /\ last' = Observation("setNotificationPreference", "void", "none", {},
                                      instance, page, storage)
               /\ UNCHANGED <<storage, tasks>>
          ELSE /\ storage' = BoolString(enabled)
               /\ LET start ==
                          IF enabled /\ instance.permission = "granted"
                          THEN IF MaySubscribe(instance, pushManager)
                               THEN <<ServiceTask("subscribeToPushNotifications", "subscribing",
                                                  "none", {"push.subscribe"}, Null)>>
                               ELSE <<>>
                          ELSE IF ~enabled
                          THEN <<ServiceTask("unsubscribeFromPushNotifications", "unsubscribing",
                                             "none", {"push.unsubscribe"}, Null)>>
                          ELSE <<>>
                  IN  /\ tasks' = IF start = <<>> THEN tasks ELSE Started(tasks, start[1])
                      /\ last' = Observation("setNotificationPreference", BoolString(enabled),
                                             "none", {start[j].pc : j \in DOMAIN start},
                                             instance, page, storage)
    /\ UNCHANGED <<page, instance, pushManager, subscription, hidden>>

\* showNotification(options): it has no await, so it runs to its return
ShowNotification ==
    /\ IF ~AreNotificationsEnabled(instance)
       THEN last' = Observation("showNotification", Null, "none", {}, instance, page, storage)
       ELSE \E constructed_ok \in BOOLEAN :
               last' = IF constructed_ok
                       THEN Observation("showNotification", "notification", "none",
                                        {"Notification"}, instance, page, storage)
                       ELSE Observation("showNotification", Null, "none", {}, instance, page, storage)
    /\ UNCHANGED <<page, instance, storage, pushManager, subscription, hidden, tasks>>

\* areNotificationsEnabled() and shouldShowNotification()
AskService ==
    /\ \/ last' = Observation("areNotificationsEnabled",
                              BoolString(AreNotificationsEnabled(instance)), "none", {},
                              instance, page, storage)
       \/ last' = Observation("shouldShowNotification",
                              BoolString(ShouldShowNotification(instance, page, storage, hidden)),
                              "none", {}, instance, page, storage)
    /\ UNCHANGED <<page, instance, storage, pushManager, subscription, hidden, tasks>>

exceptService == <<constructed, pushService, returned, calls, settings, exceptBrowser>>

NextService ==
    \/ VisibilityChanges /\ UNCHANGED <<eligVars, adminVars, exceptService>>
    \/ BrowserPermissionChanges /\ UNCHANGED <<eligVars, adminVars, exceptService>>
    \/ GetPermission /\ UNCHANGED <<eligVars, adminVars, exceptService>>
    \/ RequestPermission /\ UNCHANGED <<eligVars, adminVars, exceptService>>
    \/ RequestPermissionResumes /\ UNCHANGED <<eligVars, adminVars, exceptService>>
    \/ SubscribeToPushNotifications /\ UNCHANGED <<eligVars, adminVars, exceptService>>
    \/ UnsubscribeFromPushNotifications /\ UNCHANGED <<eligVars, adminVars, exceptService>>
    \/ PushSettles({"ok", "fail"}) /\ UNCHANGED <<eligVars, adminVars, exceptService>>
    \/ SetNotificationPreference /\ UNCHANGED <<eligVars, adminVars, exceptService>>
    \/ ShowNotification /\ UNCHANGED <<eligVars, adminVars, exceptService>>
    \/ AskService /\ UNCHANGED <<eligVars, adminVars, exceptService>>

SpecService == InitService /\ [][NextService]_vars

\* the last call consulted the tracked permission when it was made (the
\* later settling of a push call consults nothing)
ConsultedPermission ==
    /\ last.fn \in {"showNotification", "areNotificationsEnabled",
                    "subscribeToPushNotifications", "setNotificationPreference"}
    /\ last.fn = "subscribeToPushNotifications" =>
          (last.result = "pending" \/ last.made = {})

\* C24: whenever showNotification, areNotificationsEnabled,
\* subscribeToPushNotifications or setNotificationPreference consults the
\* permission tracked by the singleton, that value equals the browser's current
\* Notification.permission, also after the user changed the browser permission
\* since the last getPermission or requestPermission.
C24_TrackedPermissionIsBrowserPermission ==
    (ConsultedPermission /\ last.supported) => last.tracked = last.actual

\* C25: shouldShowNotification returns true exactly when notifications are
\* supported, the tracked permission is 'granted', the stored preference is not
\* 'false' (unset counts as enabled) and the page is hidden; showNotification
\* creates a browser notification only when notifications are supported and the
\* tracked permission is 'granted', and otherwise returns null without creating
\* one.
C25_ShouldShowAndShowNotification ==
    /\ last.fn = "shouldShowNotification" =>
          (last.result = "true" <=>
              /\ last.supported
              /\ last.tracked = "granted"
              /\ last.preference # "false"
              /\ last.hidden)
    /\ last.fn = "showNotification" =>
          /\ "Notification" \in last.made => (last.supported /\ last.tracked = "granted")
          /\ ~(last.supported /\ last.tracked = "granted") =>
                (last.result = Null /\ last.made = {})
          /\ last.result # Null <=> "Notification" \in last.made

\* shouldShowNotification answered true with no preference stored
C25_Witness ==
    /\ last.fn = "shouldShowNotification"
    /\ last.result = "true"
    /\ last.preference = Null
    /\ last.hidden

\* C26: requestPermission returns 'denied' without prompting when notifications
\* are unsupported and returns 'denied' when the prompt throws; it starts a push
\* subscription only when the prompt returned 'granted' and the stored
\* preference is not 'false'; subscribeToPushNotifications returns false
\* without calling the push service when push is unsupported or the tracked
\* permission is not 'granted'.
C26_RequestPermissionAndSubscribeGuards ==
    /\ last.fn = "requestPermission" =>
          /\ ~last.supported => (last.result = "denied" /\ last.made = {})
          /\ last.answer = "throw" => last.result = "denied"
          /\ "push.subscribe" \in last.made =>
                (last.answer = "granted" /\ last.preference # "false")
    /\ (last.fn = "subscribeToPushNotifications"
            /\ (last.result = "pending" \/ last.made = {})) =>
          /\ (~last.push \/ last.tracked # "granted") =>
                (last.result = "false" /\ last.made = {})
          /\ "push.subscribe" \in last.made => (last.push /\ last.tracked = "granted")
    /\ \A t \in BagToSet(tasks) :
          t.pc = "subscribing" =>
             /\ pushManager
             /\ t.fn = "requestPermission" =>
                   (t.answer = "granted" /\ t.preference # "false")

\* requestPermission was granted and went through a push subscription with no
\* preference stored
C26_Witness ==
    /\ last.fn = "requestPermission"
    /\ last.result = "granted"
    /\ "push.subscribe" \in last.made
    /\ last.preference = Null

(***************************************************************************)
(* SpecPreference: nothing but setNotificationPreference calls on a page   *)
(* where no preference is stored yet, every push call succeeding.          *)
(***************************************************************************)
InitPreference ==
    /\ InitService
    /\ storage = Null

NextPreference ==
    \/ SetNotificationPreference /\ UNCHANGED <<eligVars, adminVars, exceptService>>
    \/ PushSettles({"ok"}) /\ UNCHANGED <<eligVars, adminVars, exceptService>>

SpecPreference == InitPreference /\ [][NextPreference]_vars

\* every subscribe and unsubscribe that was started has completed
AllSettled == tasks = EmptyBag

\* C23: after any sequence of setNotificationPreference calls, once every
\* subscribe / unsubscribe they started has completed, the push subscription
\* agrees with the last preference set: if the last call was
\* setNotificationPreference(false) the client is not subscribed, also when an
\* earlier setNotificationPreference(true) started a subscribe that was still
\* in flight.
C23_SubscriptionAgreesWithLastPreference ==
    (AllSettled /\ storage = "false") => ~subscription

====
